---- MODULE Spec2Model ----
(***************************************************************************)
(* A model of the HaikuBox analysis engine (src/src/analyzer.py,            *)
(* class BirdDataAnalyzer): CSV rows as csv.DictReader yields them, the     *)
(* score/exclusion filter, species aggregation and ranking, the lookback    *)
(* novelty detector and the UTC-to-local-day reconciliation.                *)
(*                                                                          *)
(* Representation.                                                          *)
(*  - A detection (one csv.DictReader row) is a function from column names  *)
(*    to cells.  A column that the file's header lacks is absent from the   *)
(*    row's DOMAIN (dict.get then returns its default); a cell is a string, *)
(*    or NoneCell when the row was shorter than the header (DictReader's    *)
(*    restval None).                                                        *)
(*  - float() and int() are modelled by what they accept: PyFloat / PyInt   *)
(*    map a cell to a number, to NaN, or to the exception Python raises.    *)
(*    Scores and the threshold are held in hundredths.                      *)
(*  - A dict is a sequence of <<key, value>> pairs in insertion order.      *)
(*  - A calendar day is an integer (timedelta(days=1) is +1); strftime and  *)
(*    strptime go through the tables DateStrs / LocalDateStrs.              *)
(*  - A path is the sequence of the '_'-separated segments of its stem; the *)
(*    filesystem maps the paths of the files that exist to their content.   *)
(*  - A call that may raise returns [exc |-> ..., val |-> ...].             *)
(***************************************************************************)
EXTENDS Integers, Sequences, FiniteSets, TLC

VARIABLES fs, cfg, inp, out

vars == <<fs, cfg, inp, out>>

(***************************************************************************)
(* Bounds of the model.                                                     *)
(***************************************************************************)
\* longest record list handed to a pure stage
MaxLen == 2

(***************************************************************************)
(* Python values.                                                           *)
(***************************************************************************)
\* None, as csv.DictReader stores it for a field missing from a short row
NoneCell == "<None>"

\* generator token: the row has no such key at all
Absent == "<absent>"

NoExc == "none"

\* the strings float() turns into a finite number, in hundredths
FloatValue ==
    ("0.1" :> 10) @@ ("0.49" :> 49) @@ ("0.5" :> 50) @@ ("0.51" :> 51) @@ ("0.9" :> 90)

\* float(cell): a finite number, NaN, or the exception raised
PyFloat(c) ==
    IF c = NoneCell THEN [kind |-> "TypeError", v |-> 0]
    ELSE IF c \in DOMAIN FloatValue THEN [kind |-> "num", v |-> FloatValue[c]]
    ELSE IF c = "nan" THEN [kind |-> "nan", v |-> 0]
    ELSE [kind |-> "ValueError", v |-> 0]

\* a < b on Python floats, b finite: False whenever a is NaN
FloatLess(a, b) == a.kind = "num" /\ a.v < b

\* a >= b on Python floats, b finite: False whenever a is NaN
FloatGeq(a, b) == a.kind = "num" /\ a.v >= b

\* the row dict built from five cells, a key left out where the cell is Absent
MkRow(sc, sp, ct, lt, ld) ==
    LET full == ("Score" :> sc) @@ ("Species" :> sp) @@ ("Count" :> ct)
                @@ ("Local Time" :> lt) @@ ("Local Date" :> ld)
        keys == {k \in DOMAIN full : full[k] # Absent}
    IN  [k \in keys |-> full[k]]

(***************************************************************************)
(* BirdDataAnalyzer._filter_by_score                                        *)
(***************************************************************************)
\* float(detection.get('Score', 0))
ScoreOf(detection) ==
    IF "Score" \in DOMAIN detection THEN PyFloat(detection["Score"])
    ELSE [kind |-> "num", v |-> 0]

\* detection.get('Species', '')
SpeciesOrEmpty(detection) ==
    IF "Species" \in DOMAIN detection THEN detection["Species"] ELSE ""

\* one iteration of the loop body: TRUE iff the detection is appended
KeptByScore(self, detection) ==
    LET score == ScoreOf(detection)
        species == SpeciesOrEmpty(detection)
    IN  /\ score.kind \in {"num", "nan"}
        /\ ~FloatLess(score, self.score_threshold)
        /\ species \notin self.exclude_species

RECURSIVE RemoveWhileIteratingFrom(_, _, _)
\* a loop that deletes the rejected record at position i from the list it is
\* walking and moves on to position i + 1
RemoveWhileIteratingFrom(self, detections, i) ==
    IF i > Len(detections) THEN detections
    ELSE IF KeptByScore(self, detections[i])
    THEN RemoveWhileIteratingFrom(self, detections, i + 1)
    ELSE RemoveWhileIteratingFrom(self,
             SubSeq(detections, 1, i - 1) \o SubSeq(detections, i + 1, Len(detections)),
             i + 1)

\* a faulty variant of _filter_by_score: the rejected records are removed from
\* the list while it is iterated, which steps over the record after each one
_filter_by_score_in_place(self, detections) ==
    RemoveWhileIteratingFrom(self, detections, 1)

_filter_by_score(self, detections) ==
    SelectSeq(detections, LAMBDA d : KeptByScore(self, d))

(***************************************************************************)
(* BirdDataAnalyzer._count_by_species and _get_top_species                  *)
(***************************************************************************)
\* the strings int() accepts, with their value
IntValue ==
    ("-3" :> -3) @@ ("0" :> 0) @@ ("1" :> 1) @@ ("2" :> 2) @@ ("3" :> 3)
        @@ ("00" :> 0) @@ ("06" :> 6) @@ ("07" :> 7) @@ ("19" :> 19)
        @@ ("23" :> 23) @@ ("25" :> 25) @@ ("-1" :> -1)

\* int(cell): an integer, or the exception raised
PyInt(c) ==
    IF c = NoneCell THEN [kind |-> "TypeError", v |-> 0]
    ELSE IF c \in DOMAIN IntValue THEN [kind |-> "num", v |-> IntValue[c]]
    ELSE [kind |-> "ValueError", v |-> 0]

\* int(detection.get('Count', 1))
CountOf(detection) ==
    IF "Count" \in DOMAIN detection THEN PyInt(detection["Count"])
    ELSE [kind |-> "num", v |-> 1]

\* detection.get('Species', 'Unknown')
SpeciesOrUnknown(detection) ==
    IF "Species" \in DOMAIN detection THEN detection["Species"] ELSE "Unknown"

\* the keys of a dict, as a set
DictKeys(d) == {d[i][1] : i \in DOMAIN d}

\* d[k] for a key of the dict
DictAt(d, k) == d[CHOOSE i \in DOMAIN d : d[i][1] = k][2]

\* defaultdict(int): d[k] += n, a new key going to the end
DictAdd(d, k, n) ==
    IF k \in DictKeys(d)
    THEN [i \in DOMAIN d |-> IF d[i][1] = k THEN <<k, d[i][2] + n>> ELSE d[i]]
    ELSE Append(d, <<k, n>>)

RECURSIVE CountBySpeciesFrom(_, _, _)
\* the loop of _count_by_species from record i on; int() raising ends the call
CountBySpeciesFrom(detections, i, counts) ==
    IF i > Len(detections) THEN [exc |-> NoExc, val |-> counts]
    ELSE LET species == SpeciesOrUnknown(detections[i])
             count == CountOf(detections[i])
         IN  IF count.kind # "num" THEN [exc |-> count.kind, val |-> <<>>]
             ELSE CountBySpeciesFrom(detections, i + 1,
                                     DictAdd(counts, species, count.v))

_count_by_species(detections) == CountBySpeciesFrom(detections, 1, <<>>)

\* a faulty variant of InsertDesc: an item goes before the items of equal count
InsertDescBeforeTies(sorted, x) ==
    LET before == {j \in DOMAIN sorted : sorted[j][2] > x[2]}
        n == Cardinality(before)
    IN  SubSeq(sorted, 1, n) \o <<x>> \o SubSeq(sorted, n + 1, Len(sorted))

\* x placed into a list sorted by count descending, after every item whose
\* count is at least x's (sorted() is stable, reverse=True keeps it so)
InsertDesc(sorted, x) ==
    LET before == {j \in DOMAIN sorted : sorted[j][2] >= x[2]}
        n == Cardinality(before)
    IN  SubSeq(sorted, 1, n) \o <<x>> \o SubSeq(sorted, n + 1, Len(sorted))

RECURSIVE SortedByCountDesc(_)
\* sorted(items, key=lambda x: x[1], reverse=True)
SortedByCountDesc(items) ==
    IF items = <<>> THEN <<>>
    ELSE InsertDesc(SortedByCountDesc(SubSeq(items, 1, Len(items) - 1)),
                    items[Len(items)])

Min(a, b) == IF a <= b THEN a ELSE b

Max(a, b) == IF a >= b THEN a ELSE b

\* s[:n]
PySlicePrefix(s, n) ==
    IF n >= 0 THEN SubSeq(s, 1, Min(n, Len(s)))
    ELSE SubSeq(s, 1, Max(Len(s) + n, 0))

_get_top_species(self, species_counts) ==
    PySlicePrefix(SortedByCountDesc(species_counts), self.top_n)

(***************************************************************************)
(* The time-of-day stage: _count_by_hour and _get_species_time_ranges       *)
(***************************************************************************)
\* local_time.split(':')[0] of the Local Time cells that hold a ':'
HourPart ==
    ("00:00:00" :> "00") @@ ("06:59:59" :> "06") @@ ("07:00:00" :> "07")
        @@ ("19:30:00" :> "19") @@ ("23:59:59" :> "23") @@ ("25:00:00" :> "25")
        @@ ("-1:00:00" :> "-1")

\* detection.get('Local Time', '')
LocalTimeOrEmpty(detection) ==
    IF "Local Time" \in DOMAIN detection THEN detection["Local Time"] ELSE ""

\* `not local_time`: the empty string and None are falsy
NoLocalTime(local_time) == local_time \in {"", NoneCell}

\* a faulty variant of HourOf: the time is rounded to the nearest hour
HourOfRounded(local_time) ==
    LET hour == PyInt(IF local_time \in DOMAIN HourPart THEN HourPart[local_time]
                      ELSE local_time)
    IN  IF hour.kind = "num" /\ local_time \in {"06:59:59", "19:30:00", "23:59:59"}
        THEN [hour EXCEPT !.v = @ + 1]
        ELSE hour

\* int(local_time.split(':')[0]); a cell without ':' is its own first part
HourOf(local_time) ==
    PyInt(IF local_time \in DOMAIN HourPart THEN HourPart[local_time] ELSE local_time)

\* what the try-block of one time-of-day iteration does with a record whose
\* Local Time is truthy: "add" hour and count, "skip" on the ValueError of
\* either int(), or let the TypeError of int(None) escape
TimedStep(detection) ==
    LET hour == HourOf(LocalTimeOrEmpty(detection))
        count == CountOf(detection)
    IN  IF hour.kind = "ValueError" THEN [do |-> "skip", hour |-> 0, count |-> 0]
        ELSE IF count.kind = "ValueError" THEN [do |-> "skip", hour |-> 0, count |-> 0]
        ELSE IF count.kind = "TypeError" THEN [do |-> "raise", hour |-> 0, count |-> 0]
        ELSE [do |-> "add", hour |-> hour.v, count |-> count.v]

\* the `continue` of _count_by_hour ahead of the parsing
HourCountsSkips(detection) == NoLocalTime(LocalTimeOrEmpty(detection))

RECURSIVE CountByHourFrom(_, _, _)
\* the loop of _count_by_hour from record i on
CountByHourFrom(detections, i, hour_counts) ==
    IF i > Len(detections) THEN [exc |-> NoExc, val |-> hour_counts]
    ELSE IF HourCountsSkips(detections[i])
    THEN CountByHourFrom(detections, i + 1, hour_counts)
    ELSE LET step == TimedStep(detections[i])
         IN  IF step.do = "raise" THEN [exc |-> "TypeError", val |-> <<>>]
             ELSE IF step.do = "skip"
             THEN CountByHourFrom(detections, i + 1, hour_counts)
             ELSE CountByHourFrom(detections, i + 1,
                                  DictAdd(hour_counts, step.hour, step.count))

_count_by_hour(detections) == CountByHourFrom(detections, 1, <<>>)

\* species_times[species]['hours'].add(hour); ['count'] += count, a species
\* seen for the first time going to the end of the dict
SpeciesTimesAdd(species_times, species, hour, count) ==
    IF species \in DictKeys(species_times)
    THEN [i \in DOMAIN species_times |->
            IF species_times[i][1] = species
            THEN <<species, [hours |-> species_times[i][2].hours \cup {hour},
                             count |-> species_times[i][2].count + count]>>
            ELSE species_times[i]]
    ELSE Append(species_times, <<species, [hours |-> {hour}, count |-> count]>>)

RECURSIVE SpeciesTimesFrom(_, _, _)
\* the first loop of _get_species_time_ranges from record i on
SpeciesTimesFrom(detections, i, species_times) ==
    IF i > Len(detections) THEN [exc |-> NoExc, val |-> species_times]
    ELSE IF \/ NoLocalTime(LocalTimeOrEmpty(detections[i]))
            \/ SpeciesOrUnknown(detections[i]) = "Unknown"
    THEN SpeciesTimesFrom(detections, i + 1, species_times)
    ELSE LET step == TimedStep(detections[i])
         IN  IF step.do = "raise" THEN [exc |-> "TypeError", val |-> <<>>]
             ELSE IF step.do = "skip"
             THEN SpeciesTimesFrom(detections, i + 1, species_times)
             ELSE SpeciesTimesFrom(detections, i + 1,
                                   SpeciesTimesAdd(species_times,
                                                   SpeciesOrUnknown(detections[i]),
                                                   step.hour, step.count))

RECURSIVE SortedInts(_)
\* sorted(S) for a set of int
SortedInts(S) ==
    IF S = {} THEN <<>>
    ELSE LET least == CHOOSE x \in S : \A y \in S : x <= y
         IN  <<least>> \o SortedInts(S \ {least})

\* a faulty variant of TimeRangeEntry: the hours are listed as they come, latest first
TimeRangeEntryUnsorted(data) ==
    LET sorted_hours == SortedInts(data.hours)
        n == Len(sorted_hours)
    IN  [hours |-> [i \in 1..n |-> sorted_hours[n + 1 - i]],
         first_seen |-> sorted_hours[n],
         last_seen |-> sorted_hours[1],
         count |-> data.count]

\* the entry the second loop of _get_species_time_ranges builds
TimeRangeEntry(data) ==
    LET sorted_hours == SortedInts(data.hours)
    IN  [hours |-> sorted_hours,
         first_seen |-> sorted_hours[1],
         last_seen |-> sorted_hours[Len(sorted_hours)],
         count |-> data.count]

_get_species_time_ranges(detections) ==
    LET species_times == SpeciesTimesFrom(detections, 1, <<>>)
        kept == SelectSeq(species_times.val, LAMBDA e : e[2].hours # {})
    IN  IF species_times.exc # NoExc THEN species_times
        ELSE [exc |-> NoExc,
              val |-> [i \in DOMAIN kept |-> <<kept[i][1], TimeRangeEntry(kept[i][2])>>]]

(***************************************************************************)
(* _get_time_summary                                                        *)
(***************************************************************************)
\* {}: the dict without keys
EmptyDict == <<>>

RECURSIVE SumOfValues(_)
\* sum(d.values())
SumOfValues(d) == IF d = <<>> THEN 0 ELSE d[1][2] + SumOfValues(Tail(d))

\* a faulty variant of FirstMaxItem: the last item holding the greatest value
LastMaxItem(d) ==
    d[CHOOSE i \in DOMAIN d :
          /\ \A j \in DOMAIN d : d[j][2] <= d[i][2]
          /\ \A j \in (i + 1)..Len(d) : d[j][2] < d[i][2]]

\* max(d.items(), key=lambda x: x[1]): the first item holding the greatest value
FirstMaxItem(d) ==
    d[CHOOSE i \in DOMAIN d :
          /\ \A j \in DOMAIN d : d[j][2] <= d[i][2]
          /\ \A j \in 1..(i - 1) : d[j][2] < d[i][2]]

\* the species with an hour before 7, in dict order
EarlyBirds(species_time_ranges) ==
    LET sel == SelectSeq(species_time_ranges,
                         LAMBDA e : \E i \in DOMAIN e[2].hours : e[2].hours[i] < 7)
    IN  [i \in DOMAIN sel |-> sel[i][1]]

\* the species with an hour from 19 on, in dict order
NightOwls(species_time_ranges) ==
    LET sel == SelectSeq(species_time_ranges,
                         LAMBDA e : \E i \in DOMAIN e[2].hours : e[2].hours[i] >= 19)
    IN  [i \in DOMAIN sel |-> sel[i][1]]

\* a faulty variant of WidestItem: `span >= widest_range` keeps the last species
\* holding the greatest span
WidestItemLast(species_time_ranges) ==
    LET span(i) == species_time_ranges[i][2].last_seen
                       - species_time_ranges[i][2].first_seen
        w == CHOOSE i \in DOMAIN species_time_ranges :
                 /\ \A j \in DOMAIN species_time_ranges : span(j) <= span(i)
                 /\ \A j \in (i + 1)..Len(species_time_ranges) : span(j) < span(i)
    IN  [species |-> species_time_ranges[w][1], span |-> span(w)]

\* the first species holding the greatest last_seen - first_seen
WidestItem(species_time_ranges) ==
    LET span(i) == species_time_ranges[i][2].last_seen
                       - species_time_ranges[i][2].first_seen
        w == CHOOSE i \in DOMAIN species_time_ranges :
                 /\ \A j \in DOMAIN species_time_ranges : span(j) <= span(i)
                 /\ \A j \in 1..(i - 1) : span(j) < span(i)
    IN  [species |-> species_time_ranges[w][1], span |-> span(w)]

\* [h for h, c in hour_counts.items() if c > 0], as a set
ActiveHours(hour_counts) ==
    {hour_counts[i][1] : i \in {k \in DOMAIN hour_counts : hour_counts[k][2] > 0}}

\* a faulty variant of PeakHours: `c > avg_per_active_hour` leaves out the
\* hours that are exactly average
PeakHoursAboveAverage(hour_counts) ==
    SortedInts({hour_counts[i][1] :
                   i \in {k \in DOMAIN hour_counts :
                             hour_counts[k][2] * Cardinality(ActiveHours(hour_counts))
                                 > SumOfValues(hour_counts)}})

\* sorted([h for h, c in hour_counts.items() if c >= avg_per_active_hour]),
\* where avg_per_active_hour = sum(hour_counts.values()) / len(active_hours):
\* c >= total / n is c * n >= total, n being positive
PeakHours(hour_counts) ==
    SortedInts({hour_counts[i][1] :
                   i \in {k \in DOMAIN hour_counts :
                             hour_counts[k][2] * Cardinality(ActiveHours(hour_counts))
                                 >= SumOfValues(hour_counts)}})

_get_time_summary(hour_counts, species_time_ranges) ==
    LET active_hours == ActiveHours(hour_counts)
        busiest_hour == FirstMaxItem(hour_counts)
        widest == WidestItem(species_time_ranges)
    IN  IF hour_counts = <<>> \/ species_time_ranges = <<>> THEN EmptyDict
        ELSE IF active_hours = {} THEN EmptyDict
        ELSE [first_detection |-> SortedInts(active_hours)[1],
              last_detection |-> SortedInts(active_hours)[Cardinality(active_hours)],
              busiest_hour |-> busiest_hour[1],
              busiest_hour_count |-> busiest_hour[2],
              peak_hours |-> PeakHours(hour_counts),
              early_birds |-> EarlyBirds(species_time_ranges),
              night_owls |-> NightOwls(species_time_ranges),
              most_active_species |-> widest.species,
              most_active_span |-> widest.span]

\* the three keys analyze_csv and analyze_local_date add when
\* include_time_analysis is set; int(None) escaping a time-of-day loop ends
\* the call
TimeAnalysisOf(self, hour_counts, species_time_ranges) ==
    IF ~self.include_time_analysis THEN [exc |-> NoExc, val |-> EmptyDict]
    ELSE IF hour_counts.exc # NoExc THEN [exc |-> hour_counts.exc, val |-> EmptyDict]
    ELSE IF species_time_ranges.exc # NoExc
    THEN [exc |-> species_time_ranges.exc, val |-> EmptyDict]
    ELSE [exc |-> NoExc,
          val |-> [hour_counts |-> hour_counts.val,
                   species_time_ranges |-> species_time_ranges.val,
                   time_summary |-> _get_time_summary(hour_counts.val,
                                                      species_time_ranges.val)]]

\* the `if self.include_time_analysis:` block over the filtered records
TimeAnalysis(self, filtered) ==
    TimeAnalysisOf(self, _count_by_hour(filtered), _get_species_time_ranges(filtered))

(***************************************************************************)
(* Calendar days, file names and the filesystem                             *)
(***************************************************************************)
\* strftime('%Y-%m-%d') of the days of the model's calendar, day 1 first
DateStrs ==
    <<"2026-01-29", "2026-01-30", "2026-01-31", "2026-02-01",
      "2026-02-02", "2026-02-03", "2026-02-04", "2026-02-05">>

\* the same days written without zero padding, which strptime accepts too
UnpaddedDateStrs ==
    <<"2026-1-29", "2026-1-30", "2026-1-31", "2026-2-1",
      "2026-2-2", "2026-2-3", "2026-2-4", "2026-2-5">>

\* strftime('%d-%b-%Y') of the same days
LocalDateStrs ==
    <<"29-Jan-2026", "30-Jan-2026", "31-Jan-2026", "01-Feb-2026",
      "02-Feb-2026", "03-Feb-2026", "04-Feb-2026", "05-Feb-2026">>

\* date.strftime('%Y-%m-%d')
strftime_ymd(day) ==
    IF day \in DOMAIN DateStrs THEN DateStrs[day] ELSE "<before the calendar>"

\* date.strftime('%d-%b-%Y')
strftime_dby(day) ==
    IF day \in DOMAIN LocalDateStrs THEN LocalDateStrs[day] ELSE "<before the calendar>"

\* datetime.strptime(s, '%Y-%m-%d'): the day, or ValueError
strptime_ymd(s) ==
    IF \E i \in DOMAIN DateStrs : DateStrs[i] = s
    THEN [ok |-> TRUE, day |-> CHOOSE i \in DOMAIN DateStrs : DateStrs[i] = s]
    ELSE IF \E i \in DOMAIN UnpaddedDateStrs : UnpaddedDateStrs[i] = s
    THEN [ok |-> TRUE,
          day |-> CHOOSE i \in DOMAIN UnpaddedDateStrs : UnpaddedDateStrs[i] = s]
    ELSE [ok |-> FALSE, day |-> 0]

\* download_dir / f"{box_name}_{date.strftime('%Y-%m-%d')}.csv", box_name
\* given as its '_'-separated segments
DailyFile(box_name, day) == Append(box_name, strftime_ymd(day))

\* Path.exists()
Exists(files, path) == path \in DOMAIN files

\* BirdDataAnalyzer._read_csv: the rows, or [] when open() or the reader raises
_read_csv(files, csv_path) ==
    IF Exists(files, csv_path) /\ files[csv_path].readable
    THEN files[csv_path].rows
    ELSE <<>>

(***************************************************************************)
(* The novelty detector                                                     *)
(***************************************************************************)
\* str comparison on the names the model uses, least first
StringOrder == <<"", "Anna", "Bushtit", "Crow", "Rock Pigeon", "Unknown">>

Rank(s) == CHOOSE i \in DOMAIN StringOrder : StringOrder[i] = s

RECURSIVE SortedStrings(_)
\* sorted(list(S)) for a set of str
SortedStrings(S) ==
    IF S = {} THEN <<>>
    ELSE LET least == CHOOSE x \in S : \A y \in S : Rank(x) <= Rank(y)
         IN  <<least>> \o SortedStrings(S \ {least})

\* csv_path.stem.split('_')[-1] parsed as a date; None on ValueError
_extract_date_from_filename(csv_path) ==
    strptime_ymd(csv_path[Len(csv_path)])

\* a faulty variant of HistoricalDaysBack: the probe also takes the day before the window
HistoricalDaysBackWide(self) == 1..(self.lookback_days + 1)

\* range(1, self.lookback_days + 1)
HistoricalDaysBack(self) == 1..self.lookback_days

RECURSIVE HistoricalFrom(_, _, _, _, _)
\* the probe loop from days_back on, nearest day first
HistoricalFrom(self, files, box_name, current_day, days_back) ==
    IF days_back \notin HistoricalDaysBack(self) THEN <<>>
    ELSE LET historical_path == DailyFile(box_name, current_day - days_back)
         IN  (IF Exists(files, historical_path) THEN <<historical_path>> ELSE <<>>)
             \o HistoricalFrom(self, files, box_name, current_day, days_back + 1)

_find_historical_files(self, files, csv_path) ==
    LET current_date == _extract_date_from_filename(csv_path)
    IN  IF ~current_date.ok THEN <<>>
        \* filename.rsplit('_', 1) has two parts iff the stem holds a '_'
        ELSE IF Len(csv_path) < 2 THEN <<>>
        ELSE HistoricalFrom(self, files, SubSeq(csv_path, 1, Len(csv_path) - 1),
                            current_date.day, 1)

\* the species a historical file adds: those of its filtered rows that are
\* truthy ('' and None are skipped)
HistoricalSpeciesOf(self, files, csv_path) ==
    LET filtered == _filter_by_score(self, _read_csv(files, csv_path))
    IN  {SpeciesOrEmpty(filtered[i]) : i \in DOMAIN filtered} \ {"", NoneCell}

_get_historical_species(self, files, csv_paths) ==
    UNION {HistoricalSpeciesOf(self, files, csv_paths[i]) : i \in DOMAIN csv_paths}

_detect_new_birds(self, files, csv_path, current_species) ==
    IF current_species = {} THEN <<>>
    ELSE LET historical_files == _find_historical_files(self, files, csv_path)
         IN  IF historical_files = <<>> THEN SortedStrings(current_species)
             ELSE SortedStrings(current_species
                                \ _get_historical_species(self, files, historical_files))

(***************************************************************************)
(* analyze_csv and analyze_local_date                                       *)
(***************************************************************************)
\* what a call gives back: a value, None, or an exception
Returned(v) == [exc |-> NoExc, none |-> FALSE, val |-> v]

ReturnedNone == [exc |-> NoExc, none |-> TRUE, val |-> <<>>]

Raised(e) == [exc |-> e, none |-> FALSE, val |-> <<>>]

\* detection.get('Local Date', '')
LocalDateOrEmpty(detection) ==
    IF "Local Date" \in DOMAIN detection THEN detection["Local Date"] ELSE ""

\* a faulty variant of _filter_by_local_date: the Local Date cell is read as a date, in either rendering
_filter_by_local_date_parsed(detections, target_date) ==
    SelectSeq(detections,
              LAMBDA d : LocalDateOrEmpty(d)
                             \in {strftime_dby(target_date), strftime_ymd(target_date)})

_filter_by_local_date(detections, target_date) ==
    SelectSeq(detections, LAMBDA d : LocalDateOrEmpty(d) = strftime_dby(target_date))

\* the statistics, the novelty check and the result dict of analyze_csv, given
\* what the earlier statements computed
CsvResult(self, files, csv_path, detections, filtered, species_counts, time_analysis) ==
    IF species_counts.exc # NoExc THEN Raised(species_counts.exc)
    ELSE IF time_analysis.exc # NoExc THEN Raised(time_analysis.exc)
    ELSE Returned(
        time_analysis.val @@
        [file |-> csv_path,
         total_detections |-> Len(detections),
         filtered_detections |-> Len(filtered),
         unique_species |-> Len(species_counts.val),
         top_species |-> _get_top_species(self, species_counts.val),
         score_threshold |-> self.score_threshold,
         new_birds |-> _detect_new_birds(self, files, csv_path,
                                         DictKeys(species_counts.val))])

\* analyze_csv from the filtered records on
CsvFiltered(self, files, csv_path, detections, filtered) ==
    CsvResult(self, files, csv_path, detections, filtered,
              _count_by_species(filtered), TimeAnalysis(self, filtered))

analyze_csv(self, files, csv_path) ==
    IF ~Exists(files, csv_path) THEN ReturnedNone
    ELSE CsvFiltered(self, files, csv_path, _read_csv(files, csv_path),
                     _filter_by_score(self, _read_csv(files, csv_path)))

\* a faulty variant of LocalNewBirds: the detector runs whether or not file1
\* exists
LocalNewBirdsUnanchored(self, files, file1, current_species) ==
    _detect_new_birds(self, files, file1, current_species)

\* new_birds of analyze_local_date: file1 is the reference of the historical
\* lookup, and without it the list stays empty
LocalNewBirds(self, files, file1, current_species) ==
    IF Exists(files, file1) THEN _detect_new_birds(self, files, file1, current_species)
    ELSE <<>>

\* the result of analyze_local_date, given what the earlier statements computed
LocalDateResult(self, files, box_name, local_date, box_location, local_filtered, score_filtered, species_counts, time_analysis) ==
    LET file1 == DailyFile(box_name, local_date)
        file2 == DailyFile(box_name, local_date + 1)
    IN  IF species_counts.exc # NoExc THEN Raised(species_counts.exc)
        ELSE IF time_analysis.exc # NoExc THEN Raised(time_analysis.exc)
        ELSE Returned(
            time_analysis.val @@
            [local_date |-> strftime_ymd(local_date),
             box_name |-> box_name,
             box_location |-> box_location,
             utc_files |-> SelectSeq(<<file1, file2>>, LAMBDA f : Exists(files, f)),
             total_detections |-> Len(local_filtered),
             filtered_detections |-> Len(score_filtered),
             unique_species |-> Len(species_counts.val),
             top_species |-> _get_top_species(self, species_counts.val),
             score_threshold |-> self.score_threshold,
             new_birds |-> LocalNewBirds(self, files, file1,
                                         DictKeys(species_counts.val))])

\* analyze_local_date from the score filter on
LocalDateFiltered(self, files, box_name, local_date, box_location, local_filtered, score_filtered) ==
    LocalDateResult(self, files, box_name, local_date, box_location,
                    local_filtered, score_filtered,
                    _count_by_species(score_filtered),
                    TimeAnalysis(self, score_filtered))

\* analyze_local_date from the local-date filter on
LocalDateLoaded(self, files, box_name, local_date, box_location, all_detections, local_filtered) ==
    IF all_detections = <<>> THEN ReturnedNone
    ELSE IF local_filtered = <<>> THEN ReturnedNone
    ELSE LocalDateFiltered(self, files, box_name, local_date, box_location,
                           local_filtered, _filter_by_score(self, local_filtered))

\* the records loaded from the two UTC files of a local date
LoadBothFiles(files, box_name, local_date) ==
    (IF Exists(files, DailyFile(box_name, local_date))
     THEN _read_csv(files, DailyFile(box_name, local_date)) ELSE <<>>)
    \o (IF Exists(files, DailyFile(box_name, local_date + 1))
        THEN _read_csv(files, DailyFile(box_name, local_date + 1)) ELSE <<>>)

analyze_local_date(self, files, box_name, local_date, box_location) ==
    LocalDateLoaded(self, files, box_name, local_date, box_location,
                    LoadBothFiles(files, box_name, local_date),
                    _filter_by_local_date(LoadBothFiles(files, box_name, local_date),
                                          local_date))

(***************************************************************************)
(* analyze_multiple_csvs                                                    *)
(***************************************************************************)
RECURSIVE AddPairs(_, _)
\* for species, count in pairs: counts[species] += count
AddPairs(counts, pairs) ==
    IF pairs = <<>> THEN counts
    ELSE AddPairs(DictAdd(counts, pairs[1][1], pairs[1][2]), Tail(pairs))

\* a faulty variant of FileSpeciesPairs: the file's whole species-count map
FileSpeciesPairsRaw(self, files, csv_path, analysis) ==
    _count_by_species(_filter_by_score(self, _read_csv(files, csv_path))).val

\* the pairs one file adds to the combined counts: analysis['top_species']
FileSpeciesPairs(self, files, csv_path, analysis) == analysis.top_species

\* a faulty variant of Accumulate: the two running totals take each other's term
AccumulateSwapped(self, files, csv_path, acc, analysis) ==
    [total_detections |-> acc.total_detections + analysis.filtered_detections,
     total_filtered |-> acc.total_filtered + analysis.total_detections,
     all_species_counts |->
         AddPairs(acc.all_species_counts,
                  FileSpeciesPairs(self, files, csv_path, analysis)),
     all_new_birds |->
         acc.all_new_birds \cup {analysis.new_birds[i] : i \in DOMAIN analysis.new_birds}]

\* a faulty variant of Accumulate: the running totals are assigned, not added to
AccumulateAssigned(self, files, csv_path, acc, analysis) ==
    [total_detections |-> analysis.total_detections,
     total_filtered |-> analysis.filtered_detections,
     all_species_counts |->
         AddPairs(acc.all_species_counts,
                  FileSpeciesPairs(self, files, csv_path, analysis)),
     all_new_birds |->
         acc.all_new_birds \cup {analysis.new_birds[i] : i \in DOMAIN analysis.new_birds}]

\* the body of `if analysis:` for one file's result
Accumulate(self, files, csv_path, acc, analysis) ==
    [total_detections |-> acc.total_detections + analysis.total_detections,
     total_filtered |-> acc.total_filtered + analysis.filtered_detections,
     all_species_counts |->
         AddPairs(acc.all_species_counts,
                  FileSpeciesPairs(self, files, csv_path, analysis)),
     all_new_birds |->
         acc.all_new_birds \cup {analysis.new_birds[i] : i \in DOMAIN analysis.new_birds}]

RECURSIVE CombineFrom(_, _, _, _, _)
\* a faulty variant of CombineStep: the loop ends at the first file without a result
CombineStepUntilNone(self, files, csv_paths, i, acc, analysis) ==
    IF analysis.exc # NoExc THEN [exc |-> analysis.exc, val |-> acc]
    ELSE IF analysis.none THEN [exc |-> NoExc, val |-> acc]
    ELSE CombineFrom(self, files, csv_paths, i + 1,
                     Accumulate(self, files, csv_paths[i], acc, analysis.val))

\* one iteration of the loop over csv_paths, given the file's analysis:
\* analyze_csv raising ends the call, analyze_csv returning None leaves the
\* accumulators as they are
CombineStep(self, files, csv_paths, i, acc, analysis) ==
    IF analysis.exc # NoExc THEN [exc |-> analysis.exc, val |-> acc]
    ELSE IF analysis.none THEN CombineFrom(self, files, csv_paths, i + 1, acc)
    ELSE CombineFrom(self, files, csv_paths, i + 1,
                     Accumulate(self, files, csv_paths[i], acc, analysis.val))

\* the loop over csv_paths from file i on
CombineFrom(self, files, csv_paths, i, acc) ==
    IF i > Len(csv_paths) THEN [exc |-> NoExc, val |-> acc]
    ELSE CombineStep(self, files, csv_paths, i, acc,
                     analyze_csv(self, files, csv_paths[i]))

\* a faulty variant of CombinedResult: the list of file names is left out
CombinedResultUnnamed(self, csv_paths, acc) ==
    [total_detections |-> acc.total_detections,
     filtered_detections |-> acc.total_filtered,
     unique_species |-> Len(acc.all_species_counts),
     top_species |-> _get_top_species(self, acc.all_species_counts),
     score_threshold |-> self.score_threshold,
     new_birds |-> SortedStrings(acc.all_new_birds)]

\* the dict analyze_multiple_csvs returns
CombinedResult(self, csv_paths, acc) ==
    [files |-> csv_paths,
     total_detections |-> acc.total_detections,
     filtered_detections |-> acc.total_filtered,
     unique_species |-> Len(acc.all_species_counts),
     top_species |-> _get_top_species(self, acc.all_species_counts),
     score_threshold |-> self.score_threshold,
     new_birds |-> SortedStrings(acc.all_new_birds)]

analyze_multiple_csvs(self, files, csv_paths) ==
    LET combined ==
            CombineFrom(self, files, csv_paths, 1,
                        [total_detections |-> 0, total_filtered |-> 0,
                         all_species_counts |-> <<>>, all_new_birds |-> {}])
    IN  IF combined.exc # NoExc THEN Raised(combined.exc)
        ELSE Returned(CombinedResult(self, csv_paths, combined.val))

(***************************************************************************)
(* format_summary: what analyze.py prints.  The text is kept as the list    *)
(* of its blocks; building the 24-cell timeline of a species can fail.      *)
(***************************************************************************)
\* `for hour in data['hours']: timeline[hour] = ...` on a list of 24 cells:
\* an index outside -24..23 raises IndexError
TimelineRaises(hours) == \E i \in DOMAIN hours : hours[i] > 23 \/ hours[i] < -24

\* sorted(species_time_ranges.keys(), key=count, reverse=True)
SpeciesByCount(species_time_ranges) ==
    LET sorted == SortedByCountDesc([i \in DOMAIN species_time_ranges |->
                      <<species_time_ranges[i][1], species_time_ranges[i][2].count>>])
    IN  [i \in DOMAIN sorted |-> sorted[i][1]]

\* species_to_show: the top species when there are any, else every species
\* by count
SpeciesToShow(species_time_ranges, top_species) ==
    IF top_species # <<>> THEN [i \in DOMAIN top_species |-> top_species[i][1]]
    ELSE SpeciesByCount(species_time_ranges)

\* the species whose range and timeline are printed, or the IndexError of a
\* timeline
_format_species_time_ranges(species_time_ranges, top_species) ==
    LET shown == SelectSeq(SpeciesToShow(species_time_ranges, top_species),
                           LAMBDA s : s \in DictKeys(species_time_ranges))
    IN  IF \E i \in DOMAIN shown :
               TimelineRaises(DictAt(species_time_ranges, shown[i]).hours)
        THEN Raised("IndexError")
        ELSE Returned(shown)

\* the title block of the summary
SummaryTitle(analysis) ==
    IF "local_date" \in DOMAIN analysis THEN "local_date"
    ELSE IF "file" \in DOMAIN analysis THEN "file"
    ELSE IF "files" \in DOMAIN analysis THEN "files"
    ELSE "untitled"

\* the blocks of the summary, in order
SummaryBlocks(analysis) ==
    <<SummaryTitle(analysis), "totals">>
    \o (IF "new_birds" \in DOMAIN analysis /\ analysis.new_birds # <<>>
        THEN <<"new_birds">> ELSE <<>>)
    \o <<"top_species">>
    \o (IF "hour_counts" \in DOMAIN analysis THEN <<"hour_counts">> ELSE <<>>)
    \o (IF "species_time_ranges" \in DOMAIN analysis
        THEN <<"species_time_ranges">> ELSE <<>>)
    \o (IF "time_summary" \in DOMAIN analysis THEN <<"time_summary">> ELSE <<>>)

format_summary(analysis) ==
    IF analysis = EmptyDict THEN Returned(<<>>)
    ELSE IF "species_time_ranges" \in DOMAIN analysis
            /\ _format_species_time_ranges(analysis.species_time_ranges,
                                           analysis.top_species).exc # NoExc
    THEN Raised(_format_species_time_ranges(analysis.species_time_ranges,
                                            analysis.top_species).exc)
    ELSE Returned(SummaryBlocks(analysis))

(***************************************************************************)
(* The persisted analysis: save_analysis_json (json.dump) and the loading   *)
(* of the document in bsky_post.py (json.load).  A JSON document is a tree  *)
(* of numbers, strings, arrays and objects; an object is the sequence of    *)
(* its <<key, value>> members in the order they were written.               *)
(***************************************************************************)
JsonNumber(n) == [json |-> "number", v |-> n]

JsonString(s) == [json |-> "string", v |-> s]

JsonArray(items) == [json |-> "array", v |-> items]

JsonObject(members) == [json |-> "object", v |-> members]

\* str(hour): json.dump writes an int key of a dict as a string
HourKeyText ==
    (-1 :> "-1") @@ (0 :> "0") @@ (6 :> "6") @@ (7 :> "7") @@ (19 :> "19")
        @@ (23 :> "23") @@ (25 :> "25")

\* a list of str
EncodeStrings(q) == JsonArray([i \in DOMAIN q |-> JsonString(q[i])])

\* a list of int
EncodeInts(q) == JsonArray([i \in DOMAIN q |-> JsonNumber(q[i])])

\* a faulty variant of EncodePairs: the (species, count) pairs are written as
\* an object, by key
EncodePairsByKey(top_species) ==
    JsonObject([i \in 1..Cardinality(DictKeys(top_species)) |->
                   <<SortedStrings(DictKeys(top_species))[i],
                     JsonNumber(DictAt(top_species,
                                       SortedStrings(DictKeys(top_species))[i]))>>])

\* top_species, a list of (species, count) tuples: a tuple is written as an array
EncodePairs(top_species) ==
    JsonArray([i \in DOMAIN top_species |->
                  JsonArray(<<JsonString(top_species[i][1]),
                              JsonNumber(top_species[i][2])>>)])

\* hour_counts, a dict of int keys
EncodeHourCounts(hour_counts) ==
    JsonObject([i \in DOMAIN hour_counts |->
                   <<HourKeyText[hour_counts[i][1]], JsonNumber(hour_counts[i][2])>>])

\* one value of species_time_ranges, its keys in the order they were set
EncodeTimeRange(data) ==
    JsonObject(<< <<"hours", EncodeInts(data.hours)>>,
                  <<"first_seen", JsonNumber(data.first_seen)>>,
                  <<"last_seen", JsonNumber(data.last_seen)>>,
                  <<"count", JsonNumber(data.count)>> >>)

EncodeTimeRanges(species_time_ranges) ==
    JsonObject([i \in DOMAIN species_time_ranges |->
                   <<species_time_ranges[i][1],
                     EncodeTimeRange(species_time_ranges[i][2])>>])

\* time_summary: {} or the nine keys in the order of the dict display
EncodeTimeSummary(time_summary) ==
    IF time_summary = EmptyDict THEN JsonObject(<<>>)
    ELSE JsonObject(<< <<"first_detection", JsonNumber(time_summary.first_detection)>>,
                       <<"last_detection", JsonNumber(time_summary.last_detection)>>,
                       <<"busiest_hour", JsonNumber(time_summary.busiest_hour)>>,
                       <<"busiest_hour_count", JsonNumber(time_summary.busiest_hour_count)>>,
                       <<"peak_hours", EncodeInts(time_summary.peak_hours)>>,
                       <<"early_birds", EncodeStrings(time_summary.early_birds)>>,
                       <<"night_owls", EncodeStrings(time_summary.night_owls)>>,
                       <<"most_active_species", JsonString(time_summary.most_active_species)>>,
                       <<"most_active_span", JsonNumber(time_summary.most_active_span)>> >>)

\* the keys of the three result dicts in the order the analyzer sets them
ResultKeys ==
    <<"file", "files", "local_date", "box_name", "box_location", "utc_files",
      "total_detections", "filtered_detections", "unique_species", "top_species",
      "score_threshold", "new_birds", "hour_counts", "species_time_ranges",
      "time_summary">>

\* the JSON value of one key of a result, by the type the analyzer gives it
EncodeField(key, value) ==
    CASE key \in {"file", "local_date", "box_name", "box_location"} -> JsonString(value)
      [] key \in {"files", "utc_files", "new_birds"} -> EncodeStrings(value)
      [] key = "top_species" -> EncodePairs(value)
      [] key = "hour_counts" -> EncodeHourCounts(value)
      [] key = "species_time_ranges" -> EncodeTimeRanges(value)
      [] key = "time_summary" -> EncodeTimeSummary(value)
      [] OTHER -> JsonNumber(value)

\* json.dump(analysis, f, indent=2): the document written
json_dump(analysis) ==
    LET keys == SelectSeq(ResultKeys, LAMBDA k : k \in DOMAIN analysis)
    IN  JsonObject([i \in DOMAIN keys |-> <<keys[i], EncodeField(keys[i], analysis[keys[i]])>>])

RECURSIVE json_load(_)
\* json.load(f): an object becomes a dict of str keys in document order, an
\* array a list, a number an int and a string a str
json_load(document) ==
    CASE document.json = "object" ->
            [i \in DOMAIN document.v |->
                <<document.v[i][1], json_load(document.v[i][2])>>]
      [] document.json = "array" ->
            [i \in DOMAIN document.v |-> json_load(document.v[i])]
      [] OTHER -> document.v

\* analysis/<date_str>.json
AnalysisFile(date_str) == <<"analysis", date_str>>

\* save_analysis_json: the directory after the document is written
save_analysis_json(files, analysis, date_str) ==
    [p \in DOMAIN files \cup {AnalysisFile(date_str)} |->
        IF p = AnalysisFile(date_str)
        THEN [readable |-> TRUE, rows |-> <<>>, json |-> json_dump(analysis)]
        ELSE files[p]]

(***************************************************************************)
(* Inputs of the filter stage.                                              *)
(***************************************************************************)
SeqsUpTo(S, n) == UNION {[1..k -> S] : k \in 0..n}

ScoreCells == {"0.49", "0.5", "0.51", "nan", "high", "", NoneCell, Absent}

FilterSpeciesCells == {"Anna", "Rock Pigeon", "", Absent}

FilterRows ==
    {MkRow(sc, sp, "1", "06:59:59", "01-Feb-2026") :
        sc \in ScoreCells, sp \in FilterSpeciesCells}

DefaultConfig ==
    [score_threshold |-> 50, top_n |-> 2, exclude_species |-> {"Rock Pigeon"},
     lookback_days |-> 2, include_time_analysis |-> FALSE]

\* no analysis has run yet; a run makes one call
NoOut == [op |-> "none"]

InitFilter ==
    /\ fs = <<>>
    /\ cfg \in {DefaultConfig, [DefaultConfig EXCEPT !.exclude_species = {}]}
    /\ inp \in SeqsUpTo(FilterRows, MaxLen)
    /\ out = NoOut

CallFilterByScore ==
    /\ out = NoOut
    /\ out' = [op |-> "_filter_by_score", arg |-> inp,
               ret |-> _filter_by_score(cfg, inp)]
    /\ UNCHANGED <<fs, cfg, inp>>

\* the filter run once more, on what it returned
CallFilterAgain ==
    /\ out.op = "_filter_by_score"
    /\ out' = [op |-> "_filter_by_score twice", arg |-> out.arg, once |-> out.ret,
               ret |-> _filter_by_score(cfg, out.ret)]
    /\ UNCHANGED <<fs, cfg, inp>>

NextFilter == CallFilterByScore \/ CallFilterAgain

SpecFilter == InitFilter /\ [][NextFilter]_vars

(***************************************************************************)
(* Inputs of the aggregator.                                                *)
(***************************************************************************)
\* largest top_n configured
MaxTop == 2

AggSpeciesCells == {"Anna", "Bushtit", "Crow", Absent}

CountCells == {"1", "2", "0", "-3", "many", NoneCell, Absent}

AggRows ==
    {MkRow("0.9", sp, ct, "06:59:59", "01-Feb-2026") :
        sp \in AggSpeciesCells, ct \in CountCells}

InitAgg ==
    /\ fs = <<>>
    /\ cfg \in {[DefaultConfig EXCEPT !.top_n = n] : n \in 0..MaxTop}
    /\ inp \in SeqsUpTo(AggRows, MaxLen)
    /\ out = NoOut

CallCountBySpecies ==
    /\ out = NoOut
    /\ out' = [op |-> "_count_by_species", arg |-> inp,
               ret |-> _count_by_species(inp)]
    /\ UNCHANGED <<fs, cfg, inp>>

\* the aggregator as analyze_csv chains it: count, then rank
CallGetTopSpecies ==
    LET species_counts == _count_by_species(inp)
    IN  /\ out = NoOut
        /\ species_counts.exc = NoExc
        /\ out' = [op |-> "_get_top_species", arg |-> inp,
                   counts |-> species_counts.val,
                   ret |-> _get_top_species(cfg, species_counts.val)]
        /\ UNCHANGED <<fs, cfg, inp>>

NextAgg == CallCountBySpecies \/ CallGetTopSpecies

SpecAgg == InitAgg /\ [][NextAgg]_vars

(***************************************************************************)
(* The download directory and the novelty detector's inputs.                *)
(***************************************************************************)
\* rows over all the files of the download directory
MaxRows == 2

\* longest lookback window configured
MaxLookback == 2

\* the UTC day of the file under analysis: the whole window and one day
\* before it lie on the calendar
Today == MaxLookback + 2

Box == <<"haiku-brbs">>

OtherBox == <<"haiku-yard">>

RECURSIVE RowsIn(_, _)
\* the rows of the files named by the set of paths S
RowsIn(files, S) ==
    IF S = {} THEN 0
    ELSE LET p == CHOOSE x \in S : TRUE
         IN  Len(files[p].rows) + RowsIn(files, S \ {p})

\* HaikuBoxDownloader.download_csv saving one day's export
download_csv(path, readable, rows) ==
    /\ out = NoOut
    /\ path \notin DOMAIN fs
    /\ Len(rows) + RowsIn(fs, DOMAIN fs) <= MaxRows
    /\ readable \/ rows = <<>>
    /\ fs' = fs @@ (path :> [readable |-> readable, rows |-> rows])
    /\ UNCHANGED <<cfg, inp, out>>

\* the rows a further file may hold
RowsLeft == MaxRows - RowsIn(fs, DOMAIN fs)

NoveltyRows ==
    {MkRow("0.9", "Anna", "1", "06:59:59", "01-Feb-2026"),
     MkRow("0.1", "Anna", "1", "06:59:59", "01-Feb-2026"),
     MkRow("0.9", "", "1", "06:59:59", "01-Feb-2026"),
     MkRow("0.9", "Rock Pigeon", "1", "06:59:59", "01-Feb-2026")}

\* the box's files of the window and of the day before it, and another
\* box's file of yesterday
NoveltyFiles ==
    {DailyFile(Box, Today - d) : d \in 1..(MaxLookback + 1)}
        \cup {DailyFile(OtherBox, Today - 1)}

\* names from which the box and the day Today can be parsed: the downloader's,
\* and the same day written without zero padding
NamedPaths == {DailyFile(Box, Today), Append(Box, UnpaddedDateStrs[Today])}

\* the file under analysis: well named, without a date, without a box name
NoveltyPaths == NamedPaths \cup {<<"latest">>, <<strftime_ymd(Today)>>}

NoveltySpecies == SUBSET {"", "Anna", "Rock Pigeon"}

InitNovelty ==
    /\ fs = <<>>
    /\ cfg = [DefaultConfig EXCEPT !.lookback_days = MaxLookback]
    /\ inp = <<>>
    /\ out = NoOut

DownloadHistory ==
    \E path \in NoveltyFiles, rows \in SeqsUpTo(NoveltyRows, RowsLeft) :
        download_csv(path, TRUE, rows)

CallDetectNewBirds ==
    \E csv_path \in NoveltyPaths, current_species \in NoveltySpecies :
        /\ out = NoOut
        /\ out' = [op |-> "_detect_new_birds", csv_path |-> csv_path,
                   current_species |-> current_species,
                   ret |-> _detect_new_birds(cfg, fs, csv_path, current_species)]
        /\ UNCHANGED <<fs, cfg, inp>>

NextNovelty == DownloadHistory \/ CallDetectNewBirds

SpecNovelty == InitNovelty /\ [][NextNovelty]_vars

(***************************************************************************)
(* The local-day reconciliation's inputs.                                   *)
(***************************************************************************)
\* Local Date cells: the target day, the day after, and the target day in
\* another rendering
LocalDateCells == {strftime_dby(Today), strftime_dby(Today + 1), strftime_ymd(Today)}

LocalRows ==
    {MkRow(sc, sp, ct, "06:59:59", ld) :
        sc \in {"0.9", "0.1"}, sp \in {"Anna", "Bushtit"},
        ct \in {"1", "many"}, ld \in LocalDateCells}

File1 == DailyFile(Box, Today)

File2 == DailyFile(Box, Today + 1)

InitLocal ==
    /\ fs = <<>>
    /\ cfg = [DefaultConfig EXCEPT !.lookback_days = MaxLookback]
    /\ inp = <<>>
    /\ out = NoOut

DownloadLocalDay ==
    \E path \in {File1, File2}, rows \in SeqsUpTo(LocalRows, RowsLeft) :
        download_csv(path, TRUE, rows)

\* an export that cannot be decoded
DownloadUnreadable ==
    \E path \in {File1, File2} : download_csv(path, FALSE, <<>>)

DownloadYesterday ==
    download_csv(DailyFile(Box, Today - 1), TRUE,
                 <<MkRow("0.9", "Anna", "1", "06:59:59", strftime_dby(Today - 1))>>)

CallAnalyzeLocalDate ==
    /\ out = NoOut
    /\ out' = [op |-> "analyze_local_date",
               ret |-> analyze_local_date(cfg, fs, Box, Today, "Yard")]
    /\ UNCHANGED <<fs, cfg, inp>>

NextLocal ==
    \/ DownloadLocalDay
    \/ DownloadUnreadable
    \/ DownloadYesterday
    \/ CallAnalyzeLocalDate

SpecLocal == InitLocal /\ [][NextLocal]_vars

(***************************************************************************)
(* Single-file analysis of a file with malformed rows.                      *)
(***************************************************************************)
CsvRows ==
    {MkRow(sc, sp, ct, "06:59:59", strftime_dby(Today)) :
        sc \in {"0.9", "high"}, sp \in {"Anna", "Bushtit"},
        ct \in {"1", "many", NoneCell}}

InitCsv ==
    /\ fs = <<>>
    /\ cfg = [DefaultConfig EXCEPT !.lookback_days = MaxLookback]
    /\ inp = <<>>
    /\ out = NoOut

DownloadToday ==
    \E rows \in SeqsUpTo(CsvRows, RowsLeft) : download_csv(File1, TRUE, rows)

CallAnalyzeCsv ==
    /\ out = NoOut
    /\ out' = [op |-> "analyze_csv", csv_path |-> File1,
               ret |-> analyze_csv(cfg, fs, File1)]
    /\ UNCHANGED <<fs, cfg, inp>>

NextCsv ==
    \/ DownloadToday
    \/ DownloadYesterday
    \/ CallAnalyzeCsv
    \/ CallAnalyzeLocalDate

SpecCsv == InitCsv /\ [][NextCsv]_vars

(***************************************************************************)
(* A batch of daily files analysed together.                                *)
(***************************************************************************)
\* three species seen once each, and a detection under the threshold
BatchRows ==
    {MkRow("0.9", "Anna", "1", "06:59:59", strftime_dby(Today)),
     MkRow("0.9", "Bushtit", "1", "06:59:59", strftime_dby(Today)),
     MkRow("0.9", "Crow", "1", "06:59:59", strftime_dby(Today)),
     MkRow("0.1", "Anna", "1", "06:59:59", strftime_dby(Today))}

\* the lists of distinct files handed to analyze_multiple_csvs; a file of
\* the list need not exist
BatchLists ==
    {paths \in SeqsUpTo({File1, File2}, 2) :
        \A i, j \in DOMAIN paths : i # j => paths[i] # paths[j]}

InitMulti ==
    /\ fs = <<>>
    /\ cfg \in {[DefaultConfig EXCEPT !.top_n = n, !.lookback_days = MaxLookback] :
                    n \in 1..MaxTop}
    /\ inp = <<>>
    /\ out = NoOut

\* download_csv saving a day of the batch, readable or not
DownloadBatch ==
    \E path \in {File1, File2}, readable \in BOOLEAN :
        \E rows \in SeqsUpTo(BatchRows, MaxLen) :
            /\ out = NoOut
            /\ path \notin DOMAIN fs
            /\ readable \/ rows = <<>>
            /\ fs' = fs @@ (path :> [readable |-> readable, rows |-> rows])
            /\ UNCHANGED <<cfg, inp, out>>

CallAnalyzeMultipleCsvs ==
    \E csv_paths \in BatchLists :
        /\ out = NoOut
        /\ out' = [op |-> "analyze_multiple_csvs", csv_paths |-> csv_paths,
                   ret |-> analyze_multiple_csvs(cfg, fs, csv_paths)]
        /\ UNCHANGED <<fs, cfg, inp>>

NextMulti ==
    \/ DownloadBatch
    \/ CallAnalyzeMultipleCsvs

SpecMulti == InitMulti /\ [][NextMulti]_vars

(***************************************************************************)
(* The three analysis paths over the same two daily files, with and         *)
(* without the time-of-day analysis.                                        *)
(***************************************************************************)
\* two species seen once each, and a detection under the threshold
PathRows ==
    {MkRow("0.9", "Anna", "1", "06:59:59", strftime_dby(Today)),
     MkRow("0.9", "Bushtit", "1", "19:30:00", strftime_dby(Today)),
     MkRow("0.1", "Anna", "1", "07:00:00", strftime_dby(Today))}

InitPaths ==
    /\ fs = <<>>
    /\ cfg \in {[DefaultConfig EXCEPT !.top_n = n, !.lookback_days = MaxLookback,
                                      !.include_time_analysis = t] :
                    n \in 1..MaxTop, t \in BOOLEAN}
    /\ inp = <<>>
    /\ out = NoOut

\* download_csv saving one of the two days, readable or not
DownloadDay ==
    \E path \in {File1, File2}, readable \in BOOLEAN :
        \E rows \in SeqsUpTo(PathRows, MaxLen) :
            /\ out = NoOut
            /\ path \notin DOMAIN fs
            /\ readable \/ rows = <<>>
            /\ fs' = fs @@ (path :> [readable |-> readable, rows |-> rows])
            /\ UNCHANGED <<cfg, inp, out>>

NextPaths ==
    \/ DownloadDay
    \/ CallAnalyzeCsv
    \/ CallAnalyzeMultipleCsvs
    \/ CallAnalyzeLocalDate

SpecPaths == InitPaths /\ [][NextPaths]_vars

(***************************************************************************)
(* One day's file with all sorts of Local Time cells, analysed with the     *)
(* time-of-day analysis on.                                                 *)
(***************************************************************************)
TimeCells ==
    {"06:59:59", "07:00:00", "19:30:00", "25:00:00", "noon", "", NoneCell, Absent}

TimeRows ==
    {MkRow("0.9", "Anna", "1", lt, strftime_dby(Today)) : lt \in TimeCells}
        \cup {MkRow("0.9", "Bushtit", "2", lt, strftime_dby(Today)) :
                 lt \in {"06:59:59", "19:30:00"}}
        \cup {MkRow("0.9", "Unknown", "1", "06:59:59", strftime_dby(Today)),
              MkRow("0.9", Absent, "1", "07:00:00", strftime_dby(Today)),
              MkRow("0.1", "Anna", "1", "06:59:59", strftime_dby(Today)),
              MkRow("0.9", "Anna", "0", "07:00:00", strftime_dby(Today))}

InitTime ==
    /\ fs = <<>>
    /\ cfg = [DefaultConfig EXCEPT !.lookback_days = MaxLookback,
                                   !.include_time_analysis = TRUE]
    /\ inp = <<>>
    /\ out = NoOut

DownloadTimed ==
    \E rows \in SeqsUpTo(TimeRows, MaxLen) :
        /\ out = NoOut
        /\ File1 \notin DOMAIN fs
        /\ fs' = fs @@ (File1 :> [readable |-> TRUE, rows |-> rows])
        /\ UNCHANGED <<cfg, inp, out>>

NextTime ==
    \/ DownloadTimed
    \/ CallAnalyzeCsv
    \/ CallAnalyzeLocalDate

SpecTime == InitTime /\ [][NextTime]_vars

(***************************************************************************)
(* One day's file of up to MaxTimed records of three species over the day,  *)
(* for the time summary.                                                    *)
(***************************************************************************)
MaxTimed == 3

SummaryRows ==
    {MkRow("0.9", "Anna", "1", lt, strftime_dby(Today)) :
        lt \in {"06:59:59", "07:00:00", "19:30:00", ""}}
        \cup {MkRow("0.9", "Bushtit", "2", lt, strftime_dby(Today)) :
                 lt \in {"06:59:59", "19:30:00"}}
        \cup {MkRow("0.9", "Crow", "1", "07:00:00", strftime_dby(Today)),
              MkRow("0.9", "Crow", "0", "06:59:59", strftime_dby(Today))}
        \cup {MkRow("0.9", "Anna", "-3", lt, strftime_dby(Today)) :
                 lt \in {"06:59:59", "07:00:00"}}

InitSummary ==
    /\ fs = <<>>
    /\ cfg = [DefaultConfig EXCEPT !.lookback_days = MaxLookback,
                                   !.include_time_analysis = TRUE]
    /\ inp = <<>>
    /\ out = NoOut

DownloadSummary ==
    \E rows \in SeqsUpTo(SummaryRows, MaxTimed) :
        /\ out = NoOut
        /\ File1 \notin DOMAIN fs
        /\ fs' = fs @@ (File1 :> [readable |-> TRUE, rows |-> rows])
        /\ UNCHANGED <<cfg, inp, out>>

NextSummary ==
    \/ DownloadSummary
    \/ CallAnalyzeCsv
    \/ CallAnalyzeLocalDate

SpecSummary == InitSummary /\ [][NextSummary]_vars

(***************************************************************************)
(* A result of any of the three analyses saved as JSON and loaded back.     *)
(***************************************************************************)
JsonRows ==
    PathRows \cup {MkRow("0.9", "Anna", "1", "19:30:00", strftime_dby(Today))}

InitJson ==
    /\ fs = <<>>
    /\ cfg \in {[DefaultConfig EXCEPT !.top_n = n, !.lookback_days = MaxLookback,
                                      !.include_time_analysis = t] :
                    n \in 1..MaxTop, t \in BOOLEAN}
    /\ inp = <<>>
    /\ out = NoOut

DownloadJsonDay ==
    \E rows \in SeqsUpTo(JsonRows, MaxLen) :
        /\ out = NoOut
        /\ File1 \notin DOMAIN fs
        /\ fs' = fs @@ (File1 :> [readable |-> TRUE, rows |-> rows])
        /\ UNCHANGED <<cfg, inp, out>>

\* analyze.py --save: once the summary is printed, the result of the analysis
\* is written under the date
SaveAnalysisJson ==
    /\ out.op \in {"analyze_csv", "analyze_multiple_csvs", "analyze_local_date"}
    /\ out.ret.exc = NoExc
    /\ ~out.ret.none
    /\ format_summary(out.ret.val).exc = NoExc
    /\ fs' = save_analysis_json(fs, out.ret.val, strftime_ymd(Today))
    /\ out' = [op |-> "save_analysis_json", analysis |-> out.ret.val,
               date_str |-> strftime_ymd(Today)]
    /\ UNCHANGED <<cfg, inp>>

\* bsky_post.py: the document of the date is loaded
LoadAnalysisJson ==
    /\ out.op = "save_analysis_json"
    /\ AnalysisFile(out.date_str) \in DOMAIN fs
    /\ out' = [op |-> "json.load", analysis |-> out.analysis,
               loaded |-> json_load(fs[AnalysisFile(out.date_str)].json)]
    /\ UNCHANGED <<fs, cfg, inp>>

NextJson ==
    \/ DownloadJsonDay
    \/ CallAnalyzeCsv
    \/ CallAnalyzeMultipleCsvs
    \/ CallAnalyzeLocalDate
    \/ SaveAnalysisJson
    \/ LoadAnalysisJson

SpecJson == InitJson /\ [][NextJson]_vars

(***************************************************************************)
(* The posts of a thread: TankaPoster.format_*_post, post_analysis and      *)
(* create_thread.  A text is the sequence of its lines, a line the tuple of *)
(* what is formatted into it; the empty string is the empty sequence.  The  *)
(* analysis is the dict json.load gave.  The feed is the sequence of the    *)
(* posts the server has received; a strong reference to a post is its       *)
(* position in the feed.                                                    *)
(***************************************************************************)
\* analysis.get(key, default)
GetOr(analysis, key, default) ==
    IF key \in DictKeys(analysis) THEN DictAt(analysis, key) ELSE default

format_summary_post(analysis) ==
    IF analysis = EmptyDict THEN <<>>
    ELSE << <<"Haikubox Summary:", GetOr(analysis, "local_date", "")>>,
            <<"Total detections:", GetOr(analysis, "total_detections", 0)>>,
            <<"With confidence:", GetOr(analysis, "score_threshold", 50),
              GetOr(analysis, "filtered_detections", 0)>>,
            <<"Unique species:", GetOr(analysis, "unique_species", 0)>> >>

format_top_species_post(analysis) ==
    IF analysis = EmptyDict \/ "top_species" \notin DictKeys(analysis) THEN <<>>
    ELSE << <<"Top Birds Detected:">> >>
             \o [i \in DOMAIN DictAt(analysis, "top_species") |->
                    <<i, DictAt(analysis, "top_species")[i][1]>>]

format_new_birds_post(analysis) ==
    IF analysis = EmptyDict THEN <<>>
    ELSE IF GetOr(analysis, "new_birds", <<>>) = <<>> THEN <<>>
    ELSE << <<"Rare-ish (not seen in 7 days):">> >>
             \o [i \in DOMAIN DictAt(analysis, "new_birds") |->
                    <<DictAt(analysis, "new_birds")[i]>>]

\* the lines of the time summary post for a time_summary that is not empty
TimeSummaryLines(ts) ==
    << <<"--Time Summary--">>,
       <<"Active Window:", GetOr(ts, "first_detection", 0), GetOr(ts, "last_detection", 0)>>,
       <<"Busiest Hour:", GetOr(ts, "busiest_hour", 0)>>,
       <<"Longest active:", DictAt(ts, "most_active_species"), DictAt(ts, "most_active_span")>> >>
        \o (IF GetOr(ts, "early_birds", <<>>) # <<>>
            THEN << <<"Early birds:", DictAt(ts, "early_birds")>> >> ELSE <<>>)
        \o (IF GetOr(ts, "night_owls", <<>>) # <<>>
            THEN << <<"Night owls:", DictAt(ts, "night_owls")>> >> ELSE <<>>)

format_time_summary_post(analysis) ==
    IF analysis = EmptyDict THEN <<>>
    ELSE IF GetOr(analysis, "time_summary", <<>>) = <<>> THEN <<>>
    ELSE TimeSummaryLines(DictAt(analysis, "time_summary"))

\* the list of posts post_analysis and the dry run of bsky_post.py build
ThreadPosts(analysis) ==
    <<format_summary_post(analysis), format_top_species_post(analysis)>>
        \o (IF format_new_birds_post(analysis) # <<>>
            THEN <<format_new_birds_post(analysis)>> ELSE <<>>)
        \o (IF format_time_summary_post(analysis) # <<>>
            THEN <<format_time_summary_post(analysis)>> ELSE <<>>)

\* reply_to=None
NoReply == [parent |-> 0, root |-> 0]

\* client.send_post(text=..., reply_to=...): the feed with the post added
send_post(feed, text, reply_to) == Append(feed, [text |-> text, reply_to |-> reply_to])

\* models.create_strong_ref(response) of the post just sent
StrongRefOfLast(feed) == Len(feed)

RECURSIVE SendRepliesToRoot(_, _, _, _, _)
\* a faulty variant of SendRepliesFrom: parent_ref is never updated, every
\* reply answers the root
SendRepliesToRoot(feed, posts, i, root_ref, parent_ref) ==
    IF i > Len(posts) THEN feed
    ELSE SendRepliesToRoot(send_post(feed, posts[i],
                                     [parent |-> parent_ref, root |-> root_ref]),
                           posts, i + 1, root_ref, parent_ref)

RECURSIVE SendRepliesFrom(_, _, _, _, _)
\* the loop over posts[1:], from posts[i] on (posts[1] is the root here)
SendRepliesFrom(feed, posts, i, root_ref, parent_ref) ==
    IF i > Len(posts) THEN feed
    ELSE SendRepliesFrom(send_post(feed, posts[i],
                                   [parent |-> parent_ref, root |-> root_ref]),
                         posts, i + 1, root_ref,
                         StrongRefOfLast(send_post(feed, posts[i],
                                                   [parent |-> parent_ref,
                                                    root |-> root_ref])))

\* create_thread(*posts): the feed after the thread is sent
create_thread(feed, posts) ==
    IF posts = <<>> THEN feed
    ELSE SendRepliesFrom(send_post(feed, posts[1], NoReply), posts, 2,
                         StrongRefOfLast(send_post(feed, posts[1], NoReply)),
                         StrongRefOfLast(send_post(feed, posts[1], NoReply)))

\* post_analysis(analysis)
post_analysis(feed, analysis) == create_thread(feed, ThreadPosts(analysis))

(***************************************************************************)
(* Threads sent to the server, from given texts and from analyses.          *)
(***************************************************************************)
MaxPosts == 3

PostTexts == {<<>>, << <<"a">> >>, << <<"b">> >>}

\* analyses as bsky_post.py loads them: without and with new birds and a
\* time summary
PostedAnalyses ==
    {json_load(json_dump(r)) :
        r \in {[local_date |-> strftime_ymd(MaxLookback + 2), total_detections |-> 2,
                filtered_detections |-> 2, unique_species |-> 2,
                top_species |-> <<<<"Bushtit", 1>>, <<"Anna", 1>>>>,
                score_threshold |-> 50, new_birds |-> nb,
                time_summary |-> ts] :
                   nb \in {<<>>, <<"Anna">>},
                   ts \in {EmptyDict,
                           _get_time_summary(<<<<6, 1>>, <<19, 1>>>>,
                               <<<<"Anna", TimeRangeEntry([hours |-> {6, 19}, count |-> 2])>>>>)}}}

InitPoster ==
    /\ fs = <<>>
    /\ cfg = DefaultConfig
    /\ inp = <<>>
    /\ out = NoOut

\* create_thread called with up to MaxPosts texts; inp is the server's feed
CallCreateThread ==
    \E posts \in SeqsUpTo(PostTexts, MaxPosts) :
        /\ Len(inp) + Len(posts) <= MaxPosts + 1
        /\ inp' = create_thread(inp, posts)
        /\ out' = [op |-> "create_thread", posts |-> posts, feed |-> inp]
        /\ UNCHANGED <<fs, cfg>>

CallPostAnalysis ==
    \E analysis \in PostedAnalyses :
        /\ inp = <<>>
        /\ inp' = post_analysis(inp, analysis)
        /\ out' = [op |-> "create_thread", posts |-> ThreadPosts(analysis), feed |-> inp]
        /\ UNCHANGED <<fs, cfg>>

NextPoster == CallCreateThread \/ CallPostAnalysis

SpecPoster == InitPoster /\ [][NextPoster]_vars

(***************************************************************************)
(* The three analysis paths with an exclusion list, over files that hold    *)
(* excluded species, rows without a Species cell and the name 'Unknown'.    *)
(***************************************************************************)
ExcludeRows ==
    {MkRow("0.9", sp, "1", "07:00:00", strftime_dby(Today)) :
        sp \in {"Anna", "Rock Pigeon", "Unknown", Absent}}

\* the exclusion lists of the configuration
ExcludeLists == {{"Rock Pigeon"}, {"Rock Pigeon", "Unknown"}}

InitExclude ==
    /\ fs = <<>>
    /\ cfg \in {[DefaultConfig EXCEPT !.exclude_species = ex, !.top_n = MaxTop,
                                      !.lookback_days = MaxLookback,
                                      !.include_time_analysis = TRUE] :
                    ex \in ExcludeLists}
    /\ inp = <<>>
    /\ out = NoOut

\* download_csv saving the export of the target day, the next or the one before
DownloadExcludeDay ==
    \E path \in {File1, File2, DailyFile(Box, Today - 1)} :
        \E rows \in SeqsUpTo(ExcludeRows, RowsLeft) : download_csv(path, TRUE, rows)

NextExclude ==
    \/ DownloadExcludeDay
    \/ CallAnalyzeCsv
    \/ CallAnalyzeMultipleCsvs
    \/ CallAnalyzeLocalDate

SpecExclude == InitExclude /\ [][NextExclude]_vars

(***************************************************************************)
(* The command-line programs download.py, analyze.py and bsky_post.py and   *)
(* main.py, which runs the three in turn.  A run of a program is the record *)
(* of how the process ended: its exit status, the exception that ended it   *)
(* (an uncaught exception ends a Python process with status 1), the notice  *)
(* it printed, and the files it left.                                       *)
(***************************************************************************)
\* parse_args() of a command line without options
DefaultArgs == [all |-> FALSE, date |-> "", time |-> FALSE, save |-> FALSE]

\* analyzer.analyze_local_date(*args): Python binds the positional arguments
\* to download_dir, box_name, local_date and box_location, none of which has
\* a default, and raises TypeError when one is missing
analyze_local_date_with(self, files, args) ==
    IF Len(args) < 4 THEN Raised("TypeError")
    ELSE analyze_local_date(self, files, args[2], args[3], args[4])

RECURSIVE AnalyzeBoxesFrom(_, _, _, _, _, _)
\* one iteration of `for box in enabled_boxes`, given what the call returned
AnalyzeBoxStep(self, files, enabled_boxes, target_date, i, all_analyses, analysis) ==
    IF analysis.exc # NoExc THEN [exc |-> analysis.exc, val |-> <<>>]
    ELSE IF analysis.none
    THEN AnalyzeBoxesFrom(self, files, enabled_boxes, target_date, i + 1, all_analyses)
    ELSE AnalyzeBoxesFrom(self, files, enabled_boxes, target_date, i + 1,
                          Append(all_analyses, analysis.val))

\* the loop over the enabled boxes from box i on; the call passes
\* download_dir, box_name and target_date
AnalyzeBoxesFrom(self, files, enabled_boxes, target_date, i, all_analyses) ==
    IF i > Len(enabled_boxes) THEN [exc |-> NoExc, val |-> all_analyses]
    ELSE AnalyzeBoxStep(self, files, enabled_boxes, target_date, i, all_analyses,
                        analyze_local_date_with(self, files,
                            <<"downloads", enabled_boxes[i], target_date>>))

\* how a run of analyze.py ended
AnalyzeRun(exit, exc, notice, files, target, analysis, saved) ==
    [exit |-> exit, exc |-> exc, notice |-> notice, files |-> files,
     target |-> target, analysis |-> analysis, saved |-> saved]

\* the end of main once `analysis` is set: the summary is formatted and
\* printed, then the JSON is written if asked for; an exception of
\* format_summary ends the run before anything is saved
SummaryAndSave(files, args, target, analysis, date_str) ==
    IF format_summary(analysis).exc # NoExc
    THEN AnalyzeRun(1, format_summary(analysis).exc, "traceback", files, target,
                    analysis, "")
    ELSE IF args.save
    THEN AnalyzeRun(0, NoExc, "summary", save_analysis_json(files, analysis, date_str),
                    target, analysis, date_str)
    ELSE AnalyzeRun(0, NoExc, "summary", files, target, analysis, "")

\* the local-date branch after the loop over the boxes
AnalyzeLocalEnd(files, args, target_date, all_analyses) ==
    IF all_analyses.exc # NoExc
    THEN AnalyzeRun(1, all_analyses.exc, "traceback", files,
                    strftime_ymd(target_date), EmptyDict, "")
    ELSE IF all_analyses.val = <<>>
    THEN AnalyzeRun(0, NoExc, "no data", files, strftime_ymd(target_date), EmptyDict, "")
    ELSE SummaryAndSave(files, args, strftime_ymd(target_date), all_analyses.val[1],
                        strftime_ymd(target_date))

\* the local-date branch from the enabled boxes on
AnalyzeLocal(self, files, args, enabled_boxes, target_date) ==
    IF enabled_boxes = <<>>
    THEN AnalyzeRun(1, NoExc, "no boxes", files, strftime_ymd(target_date), EmptyDict, "")
    ELSE AnalyzeLocalEnd(files, args, target_date,
                         AnalyzeBoxesFrom(self, files, enabled_boxes, target_date, 1, <<>>))

\* the order of Path objects of one directory: by box name, then by date
PathBefore(p, q) ==
    \/ p[1] # q[1] /\ p[1] = "haiku-brbs"
    \/ p[1] = q[1] /\ strptime_ymd(p[2]).day <= strptime_ymd(q[2]).day

RECURSIVE SortedPaths(_)
SortedPaths(S) ==
    IF S = {} THEN <<>>
    ELSE LET least == CHOOSE p \in S : \A q \in S : PathBefore(p, q)
         IN  <<least>> \o SortedPaths(S \ {least})

\* find_csv_files(download_dir): the sorted *.csv of the download directory
find_csv_files(files) == SortedPaths({p \in DOMAIN files : p[1] # "analysis"})

\* the --all branch, given the analysis
AnalyzeAllEnd(files, args, now, analysis) ==
    IF analysis.exc # NoExc
    THEN AnalyzeRun(1, analysis.exc, "traceback", files, "", EmptyDict, "")
    ELSE IF analysis.none
    THEN AnalyzeRun(1, NoExc, "failed", files, "", EmptyDict, "")
    ELSE SummaryAndSave(files, args, "", analysis.val, strftime_ymd(now))

\* the --all branch
AnalyzeAll(self, files, args, now, csv_files) ==
    IF csv_files = <<>> THEN AnalyzeRun(0, NoExc, "no csv", files, "", EmptyDict, "")
    ELSE IF Len(csv_files) = 1
    THEN AnalyzeAllEnd(files, args, now, analyze_csv(self, files, csv_files[1]))
    ELSE AnalyzeAllEnd(files, args, now, analyze_multiple_csvs(self, files, csv_files))

\* main() of analyze.py run on day `now`: the target date is args.date, or two
\* days ago
analyze_main(self, files, args, enabled_boxes, now) ==
    IF args.all
    THEN AnalyzeAll([self EXCEPT !.include_time_analysis = args.time], files, args, now,
                    find_csv_files(files))
    ELSE IF args.date # "" /\ ~strptime_ymd(args.date).ok
    THEN AnalyzeRun(1, NoExc, "invalid date", files, "", EmptyDict, "")
    ELSE AnalyzeLocal([self EXCEPT !.include_time_analysis = args.time], files, args,
                      enabled_boxes,
                      IF args.date # "" THEN strptime_ymd(args.date).day ELSE now - 2)

\* main() of bsky_post.py --dryrun run on day `now`: the date is yesterday
bsky_post_main(files, now) ==
    IF AnalysisFile(strftime_ymd(now - 1)) \notin DOMAIN files
    THEN [exit |-> 1, found |-> FALSE, date_str |-> strftime_ymd(now - 1),
          analysis |-> EmptyDict, posts |-> <<>>]
    ELSE [exit |-> 0, found |-> TRUE, date_str |-> strftime_ymd(now - 1),
          analysis |-> json_load(files[AnalysisFile(strftime_ymd(now - 1))].json),
          posts |-> ThreadPosts(json_load(files[AnalysisFile(strftime_ymd(now - 1))].json))]

\* main() of download.py without options: for yesterday and today, and for
\* each enabled box, download_csv saves the export or fails; `got` maps the
\* files that were saved to their rows
download_main(files, got) ==
    [p \in DOMAIN files \cup DOMAIN got |->
        IF p \in DOMAIN got THEN [readable |-> TRUE, rows |-> got[p]] ELSE files[p]]

\* the files download.py asks for on day `now`
DownloadTargets(enabled_boxes, now) ==
    {DailyFile(enabled_boxes[i], d) : i \in DOMAIN enabled_boxes, d \in {now - 1, now}}

(***************************************************************************)
(* main.py run once, on one day, after earlier days on which the programs   *)
(* were run by hand.  inp holds the clock and the configured boxes.         *)
(***************************************************************************)
\* what the export of a day holds: a detection of that local day and one of
\* the evening before, and for the second box a detection with a Local Time
\* past the 24th hour
PipelineRows(path) ==
    <<MkRow("0.9", "Anna", "1", "06:59:59", strftime_dby(strptime_ymd(path[2]).day)),
      MkRow("0.9", "Bushtit", "1", "19:30:00", strftime_dby(strptime_ymd(path[2]).day - 1))>>
    \o (IF path[1] = OtherBox[1]
        THEN <<MkRow("0.9", "Anna", "1", "25:00:00",
                     strftime_dby(strptime_ymd(path[2]).day))>>
        ELSE <<>>)

\* the exports one run of download.py may save: each request succeeds or fails
Downloads(enabled_boxes, now) ==
    {[p \in T |-> PipelineRows(p)] : T \in SUBSET DownloadTargets(enabled_boxes, now)}

InitPipeline ==
    /\ fs = <<>>
    /\ cfg = [DefaultConfig EXCEPT !.lookback_days = MaxLookback]
    /\ inp \in {[now |-> MaxLookback + 1, enabled_boxes |-> boxes] :
                    boxes \in {<<Box>>, <<Box, OtherBox>>}}
    /\ out = NoOut

\* download.py run by hand
RunDownloadByHand ==
    \E got \in Downloads(inp.enabled_boxes, inp.now) :
        /\ out = NoOut
        /\ got # <<>>
        /\ \A p \in DOMAIN got : p \notin DOMAIN fs
        /\ fs' = download_main(fs, got)
        /\ UNCHANGED <<cfg, inp, out>>

\* analyze.py --all --save [--time] or analyze.py --date D --save run by hand
RunAnalyzeByHand ==
    \E args \in {[DefaultArgs EXCEPT !.all = TRUE, !.save = TRUE, !.time = t] :
                     t \in BOOLEAN}
                 \cup {[DefaultArgs EXCEPT !.date = strftime_ymd(inp.now), !.save = TRUE]} :
        /\ out = NoOut
        /\ fs' = analyze_main(cfg, fs, args, inp.enabled_boxes, inp.now).files
        /\ UNCHANGED <<cfg, inp, out>>

\* midnight passes
NextDay ==
    /\ out = NoOut
    /\ inp.now < MaxLookback + 2
    /\ inp' = [inp EXCEPT !.now = @ + 1]
    /\ UNCHANGED <<fs, cfg, out>>

\* main.py, first step: download.py
RunDownload ==
    \E got \in Downloads(inp.enabled_boxes, inp.now) :
        /\ out = NoOut
        /\ \A p \in DOMAIN got : p \notin DOMAIN fs
        /\ fs' = download_main(fs, got)
        /\ out' = [op |-> "download.py", before |-> fs]
        /\ UNCHANGED <<cfg, inp>>

\* main.py, second step: analyze.py
RunAnalyze ==
    /\ out.op = "download.py"
    /\ fs' = analyze_main(cfg, fs, DefaultArgs, inp.enabled_boxes, inp.now).files
    /\ out' = [op |-> "analyze.py", before |-> fs,
               analyze |-> analyze_main(cfg, fs, DefaultArgs, inp.enabled_boxes, inp.now)]
    /\ UNCHANGED <<cfg, inp>>

\* main.py, third step: bsky_post.py --dryrun
RunBskyPost ==
    /\ out.op = "analyze.py"
    /\ out' = [op |-> "bsky_post.py", before |-> out.before, analyze |-> out.analyze,
               post |-> bsky_post_main(fs, inp.now)]
    /\ UNCHANGED <<fs, cfg, inp>>

NextPipeline ==
    \/ RunDownloadByHand
    \/ RunAnalyzeByHand
    \/ NextDay
    \/ RunDownload
    \/ RunAnalyze
    \/ RunBskyPost

SpecPipeline == InitPipeline /\ [][NextPipeline]_vars

(***************************************************************************)
(* Claims                                                                   *)
(***************************************************************************)
\* the score of a record as the claim reads it: the parsed Score
ClaimKeeps(self, d) ==
    /\ FloatGeq(ScoreOf(d), self.score_threshold)
    /\ SpeciesOrEmpty(d) \notin self.exclude_species

\* C1: _filter_by_score returns exactly the records, in input order, whose
\* score >= score_threshold and whose species is not excluded, and leaves
\* the input list as it was.
C1_FilterExact ==
    out.op = "_filter_by_score" =>
        /\ out.ret = SelectSeq(out.arg, LAMBDA d : ClaimKeeps(cfg, d))
        /\ inp = out.arg

\* the index of the first record of the list that names species sp
FirstSeen(records, sp) ==
    CHOOSE i \in DOMAIN records :
        /\ SpeciesOrUnknown(records[i]) = sp
        /\ \A j \in 1..(i - 1) : SpeciesOrUnknown(records[j]) # sp

\* C8: _get_top_species returns min(top_n, number of species) pairs of the
\* count map, none of the species left out counts more than one returned,
\* the counts never increase along the list, and of two species with equal
\* counts the one first encountered in the input records comes first.
C8_TopNStable ==
    out.op = "_get_top_species" =>
        LET top == out.ret
            left == {out.counts[i] : i \in DOMAIN out.counts}
                        \ {top[i] : i \in DOMAIN top}
        IN  /\ Len(top) = Min(cfg.top_n, Len(out.counts))
            /\ \A i \in DOMAIN top : top[i] \in {out.counts[k] : k \in DOMAIN out.counts}
            /\ \A i \in DOMAIN top : \A x \in left : x[2] <= top[i][2]
            /\ \A i, j \in DOMAIN top :
                   i < j =>
                       \/ top[i][2] > top[j][2]
                       \/ /\ top[i][2] = top[j][2]
                          /\ FirstSeen(out.arg, top[i][1]) < FirstSeen(out.arg, top[j][1])
            /\ \A i \in DOMAIN top : \A x \in left :
                   x[2] = top[i][2] =>
                       FirstSeen(out.arg, top[i][1]) < FirstSeen(out.arg, x[1])

\* C8 witness: two species tie, the later-encountered one sorts first by name,
\* and top_n cuts the list
C8_Witness ==
    /\ out.op = "_get_top_species"
    /\ Len(out.counts) = 2
    /\ out.counts[1][2] = out.counts[2][2]
    /\ out.counts[1][1] = "Bushtit"
    /\ out.counts[2][1] = "Anna"
    /\ cfg.top_n = 1
    /\ out.ret = <<out.counts[1]>>

RECURSIVE SumOver(_, _, _)
\* the sum of f(records[i]) over the records from i on that name species sp
SumOver(records, sp, i) ==
    IF i > Len(records) THEN 0
    ELSE (IF SpeciesOrUnknown(records[i]) = sp
          THEN (LET c == CountOf(records[i])
                IN  IF c.kind = "num" /\ c.v >= 1 THEN c.v ELSE 1)
          ELSE 0) + SumOver(records, sp, i + 1)

\* C9: in species aggregation a record whose Count is missing, unparseable
\* or not positive contributes exactly 1 to its species' total; every other
\* record contributes its Count.
C9_CountCoercion ==
    out.op = "_count_by_species" =>
        /\ out.ret.exc = NoExc
        /\ DictKeys(out.ret.val) = {SpeciesOrUnknown(out.arg[i]) : i \in DOMAIN out.arg}
        /\ \A sp \in DictKeys(out.ret.val) :
               DictAt(out.ret.val, sp) = SumOver(out.arg, sp, 1)

\* the box's files that exist among the lookback days of day Today
WindowFiles ==
    {DailyFile(Box, Today - d) : d \in 1..cfg.lookback_days} \cap DOMAIN fs

\* the species of the rows of a file that pass the score/exclusion filter
FilteredSpecies(path) ==
    {SpeciesOrEmpty(fs[path].rows[i]) :
        i \in {k \in DOMAIN fs[path].rows : KeptByScore(cfg, fs[path].rows[k])}}

\* a sequence of names is strictly increasing in str order
IsSorted(names) ==
    \A i, j \in DOMAIN names : i < j => Rank(names[i]) < Rank(names[j])

Range(q) == {q[i] : i \in DOMAIN q}

\* C2: with at least one historical file of the box in the lookback window,
\* _detect_new_birds returns the sorted list of the current species minus
\* the union of the filtered species of every such file.
C2_NoveltySteadyState ==
    (/\ out.op = "_detect_new_birds"
     /\ out.csv_path \in NamedPaths
     /\ WindowFiles # {}) =>
        /\ IsSorted(out.ret)
        /\ Range(out.ret) =
               out.current_species \ UNION {FilteredSpecies(p) : p \in WindowFiles}

\* C3: with no historical file of the box in the lookback window,
\* _detect_new_birds returns every current species, sorted.
C3_NoveltyBootstrap ==
    (/\ out.op = "_detect_new_birds"
     /\ out.csv_path \in NamedPaths
     /\ WindowFiles = {}) =>
        /\ IsSorted(out.ret)
        /\ Range(out.ret) = out.current_species

\* C3 witness: files of another box and of a day before the window exist,
\* none in the window, and two species come back in order
C3_Witness ==
    /\ out.op = "_detect_new_birds"
    /\ out.csv_path = DailyFile(Box, Today)
    /\ WindowFiles = {}
    /\ DailyFile(OtherBox, Today - 1) \in DOMAIN fs
    /\ DailyFile(Box, Today - MaxLookback - 1) \in DOMAIN fs
    /\ fs[DailyFile(Box, Today - MaxLookback - 1)].rows # <<>>
    /\ out.current_species = {"Anna", "Rock Pigeon"}
    /\ out.ret = <<"Anna", "Rock Pigeon">>

\* C4: when the device or the date cannot be parsed from the file's name,
\* _detect_new_birds returns the empty list.
C4_UnparsedNameNoNovelty ==
    (/\ out.op = "_detect_new_birds"
     /\ out.csv_path \notin NamedPaths) =>
        out.ret = <<>>

\* the rows of a file of the directory whose Local Date cell is, as text,
\* the target day in DD-Mon-YYYY
MatchingRows(path) ==
    IF path \in DOMAIN fs
    THEN SelectSeq(fs[path].rows, LAMBDA d : LocalDateOrEmpty(d) = LocalDateStrs[Today])
    ELSE <<>>

\* the directory with every row of another local date taken out of the two
\* UTC files
WithoutOtherDates ==
    [p \in DOMAIN fs |->
        IF p \in {File1, File2} THEN [fs[p] EXCEPT !.rows = MatchingRows(p)] ELSE fs[p]]

\* C5: a result of analyze_local_date(Box, Today) counts as total_detections
\* the rows of File1 and File2 whose Local Date is textually the target day,
\* and is the result the same directory gives with all other rows removed.
C5_LocalDayStitching ==
    (out.op = "analyze_local_date" /\ out.ret.exc = NoExc /\ ~out.ret.none) =>
        /\ out.ret.val.total_detections
               = Len(MatchingRows(File1)) + Len(MatchingRows(File2))
        /\ out.ret = analyze_local_date(cfg, WithoutOtherDates, Box, Today, "Yard")

\* C5 witness: File1 holds a row of the target day and File2 a row of the
\* same day in another rendering; the result counts one detection
C5_Witness ==
    /\ out.op = "analyze_local_date"
    /\ out.ret.exc = NoExc
    /\ ~out.ret.none
    /\ Len(MatchingRows(File1)) = 1
    /\ File2 \in DOMAIN fs
    /\ Len(fs[File2].rows) = 1
    /\ LocalDateOrEmpty(fs[File2].rows[1]) = strftime_ymd(Today)
    /\ out.ret.val.utc_files = <<File1, File2>>
    /\ out.ret.val.total_detections = 1

\* C6: with exactly one of the two UTC files present and holding a row of
\* the target day, analyze_local_date returns a result computed from that
\* file's matching rows, and utc_files names exactly that file.
C6_OneFileSuffices ==
    \A present \in {File1, File2} :
        (/\ out.op = "analyze_local_date"
         /\ {File1, File2} \cap DOMAIN fs = {present}
         /\ MatchingRows(present) # <<>>) =>
            /\ out.ret.exc = NoExc
            /\ ~out.ret.none
            /\ out.ret.val.utc_files = <<present>>
            /\ out.ret.val.total_detections = Len(MatchingRows(present))

\* C7: analyze_local_date returns None whenever no loaded row has the target
\* local date, and a result whenever at least one has.
C7_NoneIffNoMatch ==
    out.op = "analyze_local_date" =>
        IF MatchingRows(File1) \o MatchingRows(File2) = <<>>
        THEN out.ret = ReturnedNone
        ELSE out.ret.exc = NoExc /\ ~out.ret.none

\* a malformed row: its Score is no number, or its Count is no integer
Malformed(d) ==
    \/ ScoreOf(d).kind # "num"
    \/ CountOf(d).kind # "num"

\* the directory with the malformed rows taken out of every file
WithoutMalformed ==
    [p \in DOMAIN fs |->
        [fs[p] EXCEPT !.rows = SelectSeq(@, LAMBDA d : ~Malformed(d))]]

\* C10: a malformed row never makes analyze_csv or analyze_local_date raise;
\* the call gives what it gives on the file without the malformed rows.
C10_MalformedRowDropped ==
    /\ out.op = "analyze_csv" =>
           /\ out.ret.exc = NoExc
           /\ out.ret = analyze_csv(cfg, WithoutMalformed, out.csv_path)
    /\ out.op = "analyze_local_date" =>
           /\ out.ret.exc = NoExc
           /\ out.ret = analyze_local_date(cfg, WithoutMalformed, Box, Today, "Yard")

\* the count a file's own analysis lists for species sp in its top_species,
\* 0 when the file gives no result or does not list the species
OwnTopCount(path, sp) ==
    LET analysis == analyze_csv(cfg, fs, path)
    IN  IF analysis.exc # NoExc \/ analysis.none THEN 0
        ELSE IF sp \in DictKeys(analysis.val.top_species)
        THEN DictAt(analysis.val.top_species, sp)
        ELSE 0

\* the species a file's own analysis lists in its top_species
OwnTopSpecies(path) ==
    LET analysis == analyze_csv(cfg, fs, path)
    IN  IF analysis.exc # NoExc \/ analysis.none THEN {}
        ELSE DictKeys(analysis.val.top_species)

RECURSIVE SumOfOwnTop(_, _, _)
\* the sum over the files of the list, from file i on, of OwnTopCount
SumOfOwnTop(paths, sp, i) ==
    IF i > Len(paths) THEN 0
    ELSE OwnTopCount(paths[i], sp) + SumOfOwnTop(paths, sp, i + 1)

RECURSIVE RawSum(_, _, _)
\* the summed Count of the filtered rows naming sp over the files of the list
RawSum(paths, sp, i) ==
    IF i > Len(paths) THEN 0
    ELSE SumOver(_filter_by_score(cfg, _read_csv(fs, paths[i])), sp, 1)
             + RawSum(paths, sp, i + 1)

\* C11: a result of analyze_multiple_csvs ranks the species that some file
\* lists in its own top-N, each with the sum of the counts those lists give
\* it; unique_species counts those species; a species in no file's top-N is
\* absent from the combined top_species.
C11_CombineResumsTopN ==
    (out.op = "analyze_multiple_csvs" /\ out.ret.exc = NoExc) =>
        LET top == out.ret.val.top_species
            listed == UNION {OwnTopSpecies(out.csv_paths[i]) : i \in DOMAIN out.csv_paths}
        IN  /\ \A i \in DOMAIN top :
                   /\ top[i][1] \in listed
                   /\ top[i][2] = SumOfOwnTop(out.csv_paths, top[i][1], 1)
            /\ \A i, j \in DOMAIN top : i # j => top[i][1] # top[j][1]
            /\ out.ret.val.unique_species = Cardinality(listed)
            /\ Len(top) = Min(cfg.top_n, Cardinality(listed))
            /\ \A sp \in listed \ DictKeys(top) :
                   \A i \in DOMAIN top :
                       SumOfOwnTop(out.csv_paths, sp, 1) <= top[i][2]

\* C11 witness: the combined list is full, and a species that no file lists
\* has a summed raw count above the count of every species returned
C11_Witness ==
    /\ out.op = "analyze_multiple_csvs"
    /\ out.ret.exc = NoExc
    /\ Len(out.csv_paths) = 2
    /\ Len(out.ret.val.top_species) = cfg.top_n
    /\ \A i \in DOMAIN out.csv_paths : "Bushtit" \notin OwnTopSpecies(out.csv_paths[i])
    /\ "Bushtit" \notin DictKeys(out.ret.val.top_species)
    /\ \A i \in DOMAIN out.ret.val.top_species :
           RawSum(out.csv_paths, "Bushtit", 1) > out.ret.val.top_species[i][2]

\* a list in the opposite order
Reversed(q) == [i \in DOMAIN q |-> q[Len(q) + 1 - i]]

\* the sequence of the counts of a ranked list
CountsOf(top) == [i \in DOMAIN top |-> top[i][2]]

\* C12 (as stated): the result of analyze_multiple_csvs is the same for the
\* file list in the opposite order: total_detections, filtered_detections,
\* unique_species, new_birds and top_species, order included.
C12_OrderIndependent ==
    (out.op = "analyze_multiple_csvs" /\ out.ret.exc = NoExc) =>
        LET other == analyze_multiple_csvs(cfg, fs, Reversed(out.csv_paths))
        IN  /\ other.exc = NoExc
            /\ other.val.total_detections = out.ret.val.total_detections
            /\ other.val.filtered_detections = out.ret.val.filtered_detections
            /\ other.val.unique_species = out.ret.val.unique_species
            /\ other.val.new_birds = out.ret.val.new_birds
            /\ other.val.top_species = out.ret.val.top_species

\* C12 (amended): for the file list in the opposite order the totals,
\* unique_species, new_birds and the sequence of counts of top_species are
\* the same, and top_species itself is the same whenever no two species of
\* the combined counts tie.
C12_OrderIndependentUpToTies ==
    (out.op = "analyze_multiple_csvs" /\ out.ret.exc = NoExc) =>
        LET other == analyze_multiple_csvs(cfg, fs, Reversed(out.csv_paths))
            listed == UNION {OwnTopSpecies(out.csv_paths[i]) : i \in DOMAIN out.csv_paths}
            tie == \E a, b \in listed :
                       /\ a # b
                       /\ SumOfOwnTop(out.csv_paths, a, 1) = SumOfOwnTop(out.csv_paths, b, 1)
        IN  /\ other.exc = NoExc
            /\ other.val.total_detections = out.ret.val.total_detections
            /\ other.val.filtered_detections = out.ret.val.filtered_detections
            /\ other.val.unique_species = out.ret.val.unique_species
            /\ other.val.new_birds = out.ret.val.new_birds
            /\ CountsOf(other.val.top_species) = CountsOf(out.ret.val.top_species)
            /\ ~tie => other.val.top_species = out.ret.val.top_species

\* C12 witness: the later day is listed first, both files are analysed, one
\* filters a record out, and two species are ranked with different counts
C12_Witness ==
    /\ out.op = "analyze_multiple_csvs"
    /\ out.ret.exc = NoExc
    /\ out.csv_paths = <<File2, File1>>
    /\ out.ret.val.top_species = <<<<"Anna", 2>>, <<"Bushtit", 1>>>>
    /\ out.ret.val.filtered_detections < out.ret.val.total_detections
    /\ out.ret.val.new_birds # <<>>

\* the files of a list that exist and can be read
Analysable(paths) ==
    SelectSeq(paths, LAMBDA path : Exists(fs, path) /\ fs[path].readable)

RECURSIVE RowsOfList(_, _)
\* the number of rows of the files of a list, from file i on
RowsOfList(paths, i) ==
    IF i > Len(paths) THEN 0
    ELSE Len(fs[paths[i]].rows) + RowsOfList(paths, i + 1)

\* C13: a missing or unreadable file of the batch does not abort
\* analyze_multiple_csvs: when the analysis of each remaining file succeeds
\* the call returns, total_detections is the number of rows of the remaining
\* files, and the totals, species counts and new birds are those of the
\* batch of the remaining files alone.
C13_FailedFileSkipped ==
    (/\ out.op = "analyze_multiple_csvs"
     /\ \A i \in DOMAIN Analysable(out.csv_paths) :
            analyze_csv(cfg, fs, Analysable(out.csv_paths)[i]).exc = NoExc) =>
        LET rest == analyze_multiple_csvs(cfg, fs, Analysable(out.csv_paths))
        IN  /\ out.ret.exc = NoExc
            /\ rest.exc = NoExc
            /\ out.ret.val.total_detections = RowsOfList(Analysable(out.csv_paths), 1)
            /\ out.ret.val.total_detections = rest.val.total_detections
            /\ out.ret.val.filtered_detections = rest.val.filtered_detections
            /\ out.ret.val.unique_species = rest.val.unique_species
            /\ out.ret.val.top_species = rest.val.top_species
            /\ out.ret.val.new_birds = rest.val.new_birds

\* C13 witness: the first file of the batch is missing, or present and
\* unreadable, and the second one is analysed
C13_Witness ==
    /\ out.op = "analyze_multiple_csvs"
    /\ out.csv_paths = <<File2, File1>>
    /\ Analysable(out.csv_paths) = <<File1>>
    /\ out.ret.exc = NoExc
    /\ out.ret.val.total_detections = MaxLen
    /\ out.ret.val.top_species # <<>>

\* the species named by the rows of a list that pass the filter: the keys of
\* the species-count map of a single-file or local-day result
CountedSpecies(rows) ==
    LET filtered == _filter_by_score(cfg, rows)
    IN  {SpeciesOrUnknown(filtered[i]) : i \in DOMAIN filtered}

\* C14: in every result of analyze_csv, analyze_multiple_csvs and
\* analyze_local_date every species of new_birds is a key of the
\* species-count map that top_species and unique_species come from.
C14_NewBirdsAreCounted ==
    /\ (out.op = "analyze_csv" /\ out.ret.exc = NoExc /\ ~out.ret.none) =>
           Range(out.ret.val.new_birds) \subseteq CountedSpecies(_read_csv(fs, out.csv_path))
    /\ (out.op = "analyze_local_date" /\ out.ret.exc = NoExc /\ ~out.ret.none) =>
           Range(out.ret.val.new_birds)
               \subseteq CountedSpecies(MatchingRows(File1) \o MatchingRows(File2))
    /\ (out.op = "analyze_multiple_csvs" /\ out.ret.exc = NoExc) =>
           /\ out.ret.val.unique_species
                  = Cardinality(UNION {OwnTopSpecies(out.csv_paths[i]) :
                                           i \in DOMAIN out.csv_paths})
           /\ Range(out.ret.val.new_birds)
                  \subseteq UNION {OwnTopSpecies(out.csv_paths[i]) :
                                       i \in DOMAIN out.csv_paths}

\* the number of rows of a list that pass the score/exclusion filter
KeptCount(rows) == Len(SelectSeq(rows, LAMBDA d : KeptByScore(cfg, d)))

RECURSIVE KeptOfList(_, _)
\* the number of rows passing the filter over the files of a list
KeptOfList(paths, i) ==
    IF i > Len(paths) THEN 0
    ELSE KeptCount(fs[paths[i]].rows) + KeptOfList(paths, i + 1)

\* C15: in every result of the three analysis paths total_detections counts
\* the records before the score/exclusion filter (after the local-date
\* filter in the local-day path), filtered_detections those that pass it,
\* and filtered_detections <= total_detections.
C15_FilteredAtMostTotal ==
    /\ (out.op = "analyze_csv" /\ out.ret.exc = NoExc /\ ~out.ret.none) =>
           /\ out.ret.val.total_detections = Len(_read_csv(fs, out.csv_path))
           /\ out.ret.val.filtered_detections = KeptCount(_read_csv(fs, out.csv_path))
           /\ out.ret.val.filtered_detections <= out.ret.val.total_detections
    /\ (out.op = "analyze_local_date" /\ out.ret.exc = NoExc /\ ~out.ret.none) =>
           /\ out.ret.val.total_detections
                  = Len(MatchingRows(File1)) + Len(MatchingRows(File2))
           /\ out.ret.val.filtered_detections
                  = KeptCount(MatchingRows(File1)) + KeptCount(MatchingRows(File2))
           /\ out.ret.val.filtered_detections <= out.ret.val.total_detections
    /\ (out.op = "analyze_multiple_csvs" /\ out.ret.exc = NoExc) =>
           /\ out.ret.val.total_detections = RowsOfList(Analysable(out.csv_paths), 1)
           /\ out.ret.val.filtered_detections = KeptOfList(Analysable(out.csv_paths), 1)
           /\ out.ret.val.filtered_detections <= out.ret.val.total_detections

\* C15 witness: a batch of two files, each analysed, loses a record to the
\* filter
C15_Witness ==
    /\ out.op = "analyze_multiple_csvs"
    /\ out.ret.exc = NoExc
    /\ Analysable(out.csv_paths) = <<File1, File2>>
    /\ out.ret.val.filtered_detections > 0
    /\ out.ret.val.filtered_detections < out.ret.val.total_detections

\* the fields every result carries
CoreFields ==
    {"total_detections", "filtered_detections", "unique_species", "top_species",
     "score_threshold", "new_birds"}

\* the three identity blocks
IdentityBlocks ==
    {{"file"}, {"files"}, {"local_date", "box_name", "box_location", "utc_files"}}

\* the fields of the time-of-day analysis
TimeFields == {"hour_counts", "species_time_ranges", "time_summary"}

\* C16: every value an analysis call returns carries all the common-core
\* fields and exactly one whole identity block, the one of its path, and
\* nothing else but the three time-of-day fields, all or none of them.
C16_CompleteResult ==
    (out.op \in {"analyze_csv", "analyze_multiple_csvs", "analyze_local_date"}
         /\ out.ret.exc = NoExc /\ ~out.ret.none) =>
        LET fields == DOMAIN out.ret.val
            block == CASE out.op = "analyze_csv" -> {"file"}
                       [] out.op = "analyze_multiple_csvs" -> {"files"}
                       [] OTHER -> {"local_date", "box_name", "box_location", "utc_files"}
        IN  /\ CoreFields \subseteq fields
            /\ block \subseteq fields
            /\ \A other \in IdentityBlocks \ {block} : other \cap fields = {}
            /\ fields \ (CoreFields \cup block) \in {{}, TimeFields}
            /\ out.ret.val.score_threshold = cfg.score_threshold
            /\ Len(out.ret.val.top_species) <= cfg.top_n

\* C16 witness: a batch none of whose files exists still gives a whole result
C16_Witness ==
    /\ out.op = "analyze_multiple_csvs"
    /\ out.ret.exc = NoExc
    /\ Len(out.csv_paths) = 2
    /\ Analysable(out.csv_paths) = <<>>
    /\ out.ret.val.total_detections = 0
    /\ out.ret.val.files = out.csv_paths

\* the integer hour component of the Local Time cells that have one
HourComponent ==
    ("06:59:59" :> 6) @@ ("07:00:00" :> 7) @@ ("19:30:00" :> 19) @@ ("25:00:00" :> 25)

\* TRUE iff the record's Local Time has an integer hour component
HasHour(d) == "Local Time" \in DOMAIN d /\ d["Local Time"] \in DOMAIN HourComponent

\* the filtered records a timed result was computed from (every row of the
\* day's file carries the day's Local Date)
TimedRecords == _filter_by_score(cfg, MatchingRows(File1))

\* a single-file or local-day result that carries the time-of-day analysis
TimedResult ==
    /\ out.op \in {"analyze_csv", "analyze_local_date"}
    /\ out.ret.exc = NoExc
    /\ ~out.ret.none
    /\ "hour_counts" \in DOMAIN out.ret.val

RECURSIVE SumCountWhere(_, _, _)
\* the sum of Count over the records from i on that satisfy Test
SumCountWhere(records, Test(_), i) ==
    IF i > Len(records) THEN 0
    ELSE (IF Test(records[i]) THEN CountOf(records[i]).v ELSE 0)
             + SumCountWhere(records, Test, i + 1)

\* C17: hour_counts has exactly the hours that are the integer hour
\* component of the Local Time of some filtered record, each once, and
\* hour_counts[h] is the sum of Count over the filtered records of hour h
\* (06:59:59 counts for hour 6).
C17_HourBucketing ==
    TimedResult =>
        LET hour_counts == out.ret.val.hour_counts
            records == TimedRecords
        IN  /\ DictKeys(hour_counts)
                   = {HourComponent[records[i]["Local Time"]] :
                          i \in {k \in DOMAIN records : HasHour(records[k])}}
            /\ \A i, j \in DOMAIN hour_counts :
                   i # j => hour_counts[i][1] # hour_counts[j][1]
            /\ \A h \in DictKeys(hour_counts) :
                   DictAt(hour_counts, h)
                       = SumCountWhere(records,
                                       LAMBDA d : HasHour(d)
                                                    /\ HourComponent[d["Local Time"]] = h,
                                       1)

\* C17 witness: two records of 06:59:59 with counts 1 and 2 make hour 6
\* count 3 and leave hour 7 absent
C17_Witness ==
    /\ TimedResult
    /\ Len(TimedRecords) = 2
    /\ \A i \in DOMAIN TimedRecords : LocalTimeOrEmpty(TimedRecords[i]) = "06:59:59"
    /\ out.ret.val.hour_counts = <<<<6, 3>>>>

\* the hours listed anywhere in a timed result
ListedHours ==
    DictKeys(out.ret.val.hour_counts)
        \cup UNION {Range(out.ret.val.species_time_ranges[i][2].hours) :
                        i \in DOMAIN out.ret.val.species_time_ranges}

\* C18: every key of hour_counts and every element of every species' hours
\* list is an integer in 0..23.
C18_HoursInRange ==
    TimedResult => ListedHours \subseteq 0..23

\* C19: a filtered record with a missing or unparseable Local Time, or of
\* species 'Unknown', adds to neither hour_counts nor species_time_ranges
\* and is still counted in the totals and the species counts; the sum of
\* hour_counts equals the sum of the counts of species_time_ranges.
C19_TimeStageExclusion ==
    TimedResult =>
        LET records == TimedRecords
            staged(d) == HasHour(d) /\ SpeciesOrUnknown(d) # "Unknown"
            ranges == out.ret.val.species_time_ranges
        IN  /\ SumOfValues(out.ret.val.hour_counts)
                   = SumCountWhere(records, staged, 1)
            /\ SumOfValues([i \in DOMAIN ranges |-> <<ranges[i][1], ranges[i][2].count>>])
                   = SumCountWhere(records, staged, 1)
            /\ out.ret.val.filtered_detections = Len(records)
            /\ out.ret.val.unique_species
                   = Cardinality({SpeciesOrUnknown(records[i]) : i \in DOMAIN records})

\* C20: every species of species_time_ranges has a non-empty, strictly
\* increasing list of hours, the hours of its filtered records that have
\* one; first_seen is the least and last_seen the greatest of them; count is
\* the summed Count of those records.
C20_SpeciesTimeRanges ==
    TimedResult =>
        LET records == TimedRecords
            ranges == out.ret.val.species_time_ranges
        IN  /\ DictKeys(ranges)
                   = {SpeciesOrUnknown(records[i]) :
                          i \in {k \in DOMAIN records : HasHour(records[k])}} \ {"Unknown"}
            /\ \A i, j \in DOMAIN ranges : i # j => ranges[i][1] # ranges[j][1]
            /\ \A e \in Range(ranges) :
                   LET mine(d) == HasHour(d) /\ SpeciesOrUnknown(d) = e[1]
                       hours == e[2].hours
                   IN  /\ hours # <<>>
                       /\ \A i, j \in DOMAIN hours : i < j => hours[i] < hours[j]
                       /\ Range(hours)
                              = {HourComponent[records[i]["Local Time"]] :
                                     i \in {k \in DOMAIN records : mine(records[k])}}
                       /\ \A h \in Range(hours) :
                              e[2].first_seen <= h /\ h <= e[2].last_seen
                       /\ e[2].first_seen \in Range(hours)
                       /\ e[2].last_seen \in Range(hours)
                       /\ e[2].count = SumCountWhere(records, mine, 1)

\* C20 witness: a species seen at 19:30 and then at 06:59 with counts 2
\* lists hours 6 and 19
C20_Witness ==
    /\ TimedResult
    /\ out.ret.val.species_time_ranges
           = <<<<"Bushtit", [hours |-> <<6, 19>>, first_seen |-> 6,
                             last_seen |-> 19, count |-> 4]>>>>
    /\ LocalTimeOrEmpty(TimedRecords[1]) = "19:30:00"

\* a timed result whose time_summary is not the empty dict
Summarised == TimedResult /\ out.ret.val.time_summary # EmptyDict

\* the hours of hour_counts whose count is not zero
NonzeroHours ==
    {out.ret.val.hour_counts[i][1] :
        i \in {k \in DOMAIN out.ret.val.hour_counts : out.ret.val.hour_counts[k][2] # 0}}

\* TRUE iff q lists exactly the members of S in ascending order
AscendingListOf(q, S) ==
    /\ Range(q) = S
    /\ \A i, j \in DOMAIN q : i < j => q[i] < q[j]

\* C21 as stated: peak_hours is the ascending list of the hours h with
\* hour_counts[h] * (number of hours of nonzero count) >= filtered_detections.
C21_PeakHours ==
    Summarised =>
        AscendingListOf(out.ret.val.time_summary.peak_hours,
                        {h \in DictKeys(out.ret.val.hour_counts) :
                            DictAt(out.ret.val.hour_counts, h) * Cardinality(NonzeroHours)
                                >= out.ret.val.filtered_detections})

\* the hours of hour_counts whose count is greater than zero
PositiveHours ==
    {h \in DictKeys(out.ret.val.hour_counts) : DictAt(out.ret.val.hour_counts, h) > 0}

\* C21 amended: peak_hours is the ascending list of the hours h with
\* hour_counts[h] * (number of hours of count greater than zero) >= the sum
\* of the values of hour_counts.  With hour_counts = {6: -3, 7: -3, 19: 2}
\* the sum is -4 and one hour is active: every hour is a peak hour, while
\* with the three hours of nonzero count only 19 would be.
C21_PeakHoursOfHourCounts ==
    Summarised =>
        AscendingListOf(out.ret.val.time_summary.peak_hours,
                        {h \in DictKeys(out.ret.val.hour_counts) :
                            DictAt(out.ret.val.hour_counts, h) * Cardinality(PositiveHours)
                                >= SumOfValues(out.ret.val.hour_counts)})

\* C21 witness: hours 7 and 6 are seen in that order with count 1 each,
\* beside a record without Local Time: both hours are exactly average and
\* are listed, in ascending order, while filtered_detections is 3
C21_Witness ==
    /\ Summarised
    /\ out.ret.val.hour_counts = <<<<7, 1>>, <<6, 1>>>>
    /\ out.ret.val.time_summary.peak_hours = <<6, 7>>
    /\ out.ret.val.filtered_detections = 3

\* the index of the first filtered record of hour h, 0 when there is none
FirstIndexOfHour(records, h) ==
    LET at == {i \in DOMAIN records :
                  HasHour(records[i]) /\ HourComponent[records[i]["Local Time"]] = h}
    IN  IF at = {} THEN 0 ELSE CHOOSE i \in at : \A j \in at : i <= j

\* C22: busiest_hour_count is the greatest value of hour_counts and
\* busiest_hour the first hour, in hour_counts order, that has it;
\* hour_counts lists the hours in the order the records first bring them;
\* first_detection and last_detection are the least and the greatest hour
\* of nonzero count.
C22_BusiestHour ==
    Summarised =>
        LET hour_counts == out.ret.val.hour_counts
            summary == out.ret.val.time_summary
        IN  /\ \A i \in DOMAIN hour_counts : hour_counts[i][2] <= summary.busiest_hour_count
            /\ \E i \in DOMAIN hour_counts :
                   /\ hour_counts[i] = <<summary.busiest_hour, summary.busiest_hour_count>>
                   /\ \A j \in 1..(i - 1) : hour_counts[j][2] < summary.busiest_hour_count
            /\ \A i, j \in DOMAIN hour_counts :
                   i < j => /\ FirstIndexOfHour(TimedRecords, hour_counts[i][1]) > 0
                            /\ FirstIndexOfHour(TimedRecords, hour_counts[i][1])
                                   < FirstIndexOfHour(TimedRecords, hour_counts[j][1])
            /\ summary.first_detection \in NonzeroHours
            /\ summary.last_detection \in NonzeroHours
            /\ \A h \in NonzeroHours :
                   summary.first_detection <= h /\ h <= summary.last_detection

\* C22 witness: hour 19 comes first and hour 6 second with the same count,
\* a third hour having less: the busiest hour is 19 although 6 is earlier in
\* the day
C22_Witness ==
    /\ Summarised
    /\ Len(out.ret.val.hour_counts) = 3
    /\ out.ret.val.hour_counts[1] = <<19, 2>>
    /\ out.ret.val.hour_counts[2] = <<6, 2>>
    /\ out.ret.val.time_summary.busiest_hour = 19
    /\ out.ret.val.time_summary.first_detection = 6

\* the index of the first filtered record of a species that has an hour
FirstTimedIndex(records, sp) ==
    LET at == {i \in DOMAIN records : HasHour(records[i]) /\ SpeciesOrUnknown(records[i]) = sp}
    IN  IF at = {} THEN 0 ELSE CHOOSE i \in at : \A j \in at : i <= j

\* last_seen - first_seen of a species of the result
SpanOf(sp) ==
    DictAt(out.ret.val.species_time_ranges, sp).last_seen
        - DictAt(out.ret.val.species_time_ranges, sp).first_seen

\* C23: most_active_span is the greatest last_seen - first_seen over
\* species_time_ranges and most_active_species a species that has it, the
\* one whose first timed record comes earliest among those that have it.
C23_MostActiveSpecies ==
    Summarised =>
        LET summary == out.ret.val.time_summary
            species == DictKeys(out.ret.val.species_time_ranges)
        IN  /\ summary.most_active_species \in species
            /\ summary.most_active_span = SpanOf(summary.most_active_species)
            /\ \A sp \in species : SpanOf(sp) <= summary.most_active_span
            /\ \A sp \in species :
                   (sp # summary.most_active_species /\ SpanOf(sp) = summary.most_active_span)
                       => FirstTimedIndex(TimedRecords, summary.most_active_species)
                              < FirstTimedIndex(TimedRecords, sp)

\* C23 witness: Anna is seen first, at one hour only, and Bushtit then at 6
\* and at 19: Bushtit has the widest span
C23_Witness ==
    /\ Summarised
    /\ Len(TimedRecords) = 3
    /\ SpeciesOrUnknown(TimedRecords[1]) = "Anna"
    /\ out.ret.val.time_summary.most_active_species = "Bushtit"
    /\ out.ret.val.time_summary.most_active_span = 13

\* C23 witness of the tie: two species of one hour each, the first one seen
\* is reported with span 0
C23_TieWitness ==
    /\ Summarised
    /\ Len(out.ret.val.species_time_ranges) = 2
    /\ out.ret.val.time_summary.most_active_span = 0
    /\ out.ret.val.time_summary.most_active_species = SpeciesOrUnknown(TimedRecords[1])

\* C24: the filter applied to its own output, with the same threshold and
\* exclusion list, returns that output: the same records in the same order.
C24_FilterIdempotent ==
    out.op = "_filter_by_score twice" => out.ret = out.once

\* C24 witness: the first pass drops one of two records and keeps the other,
\* a record of score exactly the threshold, and the second pass has run
C24_Witness ==
    /\ out.op = "_filter_by_score twice"
    /\ Len(out.arg) = 2
    /\ Len(out.once) = 1
    /\ out.once[1]["Score"] = "0.5"
    /\ out.ret = out.once

\* C25: after save_analysis_json and json.load the document has the same
\* top_species pairs in the same order, the same new_birds list, sorted, and
\* for every species of species_time_ranges the same hours list, strictly
\* increasing.
C25_JsonRoundTrip ==
    out.op = "json.load" =>
        /\ Len(DictAt(out.loaded, "top_species")) = Len(out.analysis.top_species)
        /\ \A i \in DOMAIN out.analysis.top_species :
               /\ Len(DictAt(out.loaded, "top_species")[i]) = 2
               /\ DictAt(out.loaded, "top_species")[i][1] = out.analysis.top_species[i][1]
               /\ DictAt(out.loaded, "top_species")[i][2] = out.analysis.top_species[i][2]
        /\ DictAt(out.loaded, "new_birds") = out.analysis.new_birds
        /\ IsSorted(DictAt(out.loaded, "new_birds"))
        /\ ("species_time_ranges" \in DOMAIN out.analysis) =>
               LET ranges == out.analysis.species_time_ranges
                   loaded == DictAt(out.loaded, "species_time_ranges")
               IN  /\ [i \in DOMAIN loaded |-> loaded[i][1]]
                          = [i \in DOMAIN ranges |-> ranges[i][1]]
                   /\ \A i \in DOMAIN ranges :
                          LET hours == DictAt(loaded[i][2], "hours")
                          IN  /\ hours = ranges[i][2].hours
                              /\ \A j, k \in DOMAIN hours : j < k => hours[j] < hours[k]

\* C25 witness: a timed result whose top_species is not in alphabetical
\* order, with two new birds and an hours list for each, has been saved and
\* loaded
C25_Witness ==
    /\ out.op = "json.load"
    /\ "species_time_ranges" \in DOMAIN out.analysis
    /\ out.analysis.top_species = <<<<"Bushtit", 1>>, <<"Anna", 1>>>>
    /\ out.analysis.new_birds = <<"Anna", "Bushtit">>
    /\ Len(DictAt(out.loaded, "species_time_ranges")) = 2

\* C29: create_thread adds the posts to the feed in argument order and
\* nothing else; the first has no reply reference and every later one
\* refers to the first as its root and to the one sent just before it as
\* its parent; with no posts the feed is unchanged.
C29_ThreadOrder ==
    out.op = "create_thread" =>
        LET n == Len(out.feed)
        IN  /\ Len(inp) = n + Len(out.posts)
            /\ SubSeq(inp, 1, n) = out.feed
            /\ \A i \in DOMAIN out.posts : inp[n + i].text = out.posts[i]
            /\ out.posts # <<>> => inp[n + 1].reply_to = NoReply
            /\ \A i \in 2..Len(out.posts) :
                   inp[n + i].reply_to = [parent |-> n + i - 1, root |-> n + 1]

\* C29 witness: a thread of three posts sent to a feed that already holds a
\* post; the third answers the second
C29_Witness ==
    /\ out.op = "create_thread"
    /\ Len(out.feed) = 1
    /\ Len(out.posts) = 3
    /\ inp[4].reply_to = [parent |-> 3, root |-> 2]

\* TRUE iff analyze_local_date gives no result for any enabled box on the
\* target date of the run
NoBoxHasData(files, target_date) ==
    \A i \in DOMAIN inp.enabled_boxes :
        analyze_local_date(cfg, files, inp.enabled_boxes[i], target_date, "Yard").none

\* C26: a run of analyze.py for a local date is not ended by an exception
\* of the calls of analyze_local_date, and when no enabled box has data for
\* the date it prints the no-data notice and exits with status 0.
C26_NoDataIsNormal ==
    out.op = "analyze.py" =>
        /\ out.analyze.exc = NoExc
        /\ NoBoxHasData(out.before, inp.now - 2) =>
               out.analyze.notice = "no data" /\ out.analyze.exit = 0

\* C30: when main.py has run its three steps on one day, the posting step
\* has found and loaded the document the analysis step of this run wrote:
\* the analysis step saved a document and the poster read the key it was
\* saved under.
C30_PipelineDateKey ==
    out.op = "bsky_post.py" =>
        /\ out.analyze.saved # ""
        /\ out.post.found
        /\ out.post.date_str = out.analyze.saved
        /\ out.post.date_str = out.analyze.target

\* the species of the rows of File1 and File2 that are of the target local
\* day and pass the score/exclusion filter
LocalDaySpecies ==
    {SpeciesOrEmpty(d) :
        d \in {r \in Range(MatchingRows(File1) \o MatchingRows(File2)) :
                  KeptByScore(cfg, r)}}

\* C27: a result of analyze_local_date(Box, Today) has an empty new_birds
\* when File1, the UTC file dated the target day, is absent, whatever File2
\* supplies and whether or not a historical file exists; when File1 is
\* present, new_birds is the sorted novelty result of the local-day species
\* against the lookback window of File1: all of them without a historical
\* file, else those in no historical file.
C27_NoveltyAnchoredOnFile1 ==
    (out.op = "analyze_local_date" /\ out.ret.exc = NoExc /\ ~out.ret.none) =>
        /\ IsSorted(out.ret.val.new_birds)
        /\ Range(out.ret.val.new_birds) =
               IF File1 \notin DOMAIN fs THEN {}
               ELSE IF WindowFiles = {} THEN LocalDaySpecies
               ELSE LocalDaySpecies \ UNION {FilteredSpecies(p) : p \in WindowFiles}

\* C27 witness: File1 is absent, File2 supplies two species of the target
\* day, no historical file exists, and new_birds is empty
C27_Witness ==
    /\ out.op = "analyze_local_date"
    /\ out.ret.exc = NoExc
    /\ ~out.ret.none
    /\ File1 \notin DOMAIN fs
    /\ WindowFiles = {}
    /\ LocalDaySpecies = {"Anna", "Bushtit"}
    /\ out.ret.val.unique_species = 2
    /\ out.ret.val.utc_files = <<File2>>
    /\ out.ret.val.new_birds = <<>>

\* with File1 present and yesterday's file in the window, a species not
\* seen yesterday is new
C27_AnchoredWitness ==
    /\ out.op = "analyze_local_date"
    /\ out.ret.exc = NoExc
    /\ ~out.ret.none
    /\ File1 \in DOMAIN fs
    /\ WindowFiles # {}
    /\ "Bushtit" \in LocalDaySpecies
    /\ out.ret.val.new_birds = <<"Bushtit">>

\* C28: in every result of the three analysis paths no species of
\* exclude_species is a species of top_species, a member of new_birds or a
\* key of species_time_ranges.
C28_ExcludedNeverReported ==
    (out.op \in {"analyze_csv", "analyze_multiple_csvs", "analyze_local_date"}
         /\ out.ret.exc = NoExc /\ ~out.ret.none) =>
        \A sp \in cfg.exclude_species :
            /\ sp \notin DictKeys(out.ret.val.top_species)
            /\ sp \notin Range(out.ret.val.new_birds)
            /\ "species_time_ranges" \in DOMAIN out.ret.val =>
                   sp \notin DictKeys(out.ret.val.species_time_ranges)

\* a Count below zero makes the active hours differ from the hours of
\* nonzero count: all three hours are at or above the average of -4
C21_NegativeWitness ==
    /\ Summarised
    /\ out.ret.val.hour_counts = <<<<6, -3>>, <<7, -3>>, <<19, 2>>>>
    /\ out.ret.val.time_summary.peak_hours = <<6, 7, 19>>

====
